---- MODULE Spec2Model ----
(***************************************************************************)
(* Deck-Genie: the content-to-slide pipeline of ppt_generator.py.          *)
(* Text is modelled as a sequence of one-character strings, so that the    *)
(* cleaning, keying, truncation and completion steps are computed          *)
(* character by character as the Python code computes them.                *)
(***************************************************************************)
EXTENDS Integers, Sequences, FiniteSets, TLC

\* ------------------------------------------------------------------------
\* Bounds of the model
\* ------------------------------------------------------------------------
MaxItems == 3
MaxKeyLen == 3
MaxTokens == 3
MaxCharsArg == 4
MaxWordsArg == 2
MaxStyleTokens == 2
MaxOrderLen == 2

MaxCalls == 3

\* ------------------------------------------------------------------------
\* Python str primitives
\* ------------------------------------------------------------------------
LowerLetters == <<"a", "b", "c", "d", "e", "f", "g", "h", "i", "j", "k", "l", "m", "n", "o", "p", "q", "r", "s", "t", "u", "v", "w", "x", "y", "z">>

UpperLetters == <<"A", "B", "C", "D", "E", "F", "G", "H", "I", "J", "K", "L", "M", "N", "O", "P", "Q", "R", "S", "T", "U", "V", "W", "X", "Y", "Z">>

Digits == <<"0", "1", "2", "3", "4", "5", "6", "7", "8", "9">>

Range(s) == {s[i] : i \in 1..Len(s)}

\* str.isspace() of one character
IsSpace(c) == c = " "

\* str.isalnum() of one character
IsAlnum(c) == c \in Range(LowerLetters) \cup Range(UpperLetters) \cup Range(Digits)

\* str.lower() of one character
LowerChar(c) ==
    IF c \in Range(UpperLetters)
    THEN LowerLetters[CHOOSE i \in 1..Len(UpperLetters) : UpperLetters[i] = c]
    ELSE c

\* the other case of a letter (str.swapcase() of one character)
SwapChar(c) ==
    IF c \in Range(UpperLetters)
    THEN LowerLetters[CHOOSE i \in 1..Len(UpperLetters) : UpperLetters[i] = c]
    ELSE IF c \in Range(LowerLetters)
    THEN UpperLetters[CHOOSE i \in 1..Len(LowerLetters) : LowerLetters[i] = c]
    ELSE c

\* str.lower()
Lower(s) == [i \in 1..Len(s) |-> LowerChar(s[i])]

\* s.replace(c, '') for every character c of the set cs
RemoveChars(s, cs) == SelectSeq(s, LAMBDA c : c \notin cs)

\* s.rstrip(chars): drop the trailing characters that are in the set cs
RECURSIVE RStrip(_, _)
RStrip(s, cs) ==
    IF s # <<>> /\ s[Len(s)] \in cs THEN RStrip(SubSeq(s, 1, Len(s) - 1), cs) ELSE s

\* s.lstrip(chars)
RECURSIVE LStrip(_, _)
LStrip(s, cs) ==
    IF s # <<>> /\ s[1] \in cs THEN LStrip(Tail(s), cs) ELSE s

\* s.strip(): whitespace off both ends
Strip(s) == LStrip(RStrip(s, {" "}), {" "})

\* s.split(): the maximal runs of non-whitespace characters, in order
RECURSIVE SplitFrom(_, _, _)
SplitFrom(s, i, cur) ==
    IF i > Len(s)
    THEN IF cur = <<>> THEN <<>> ELSE <<cur>>
    ELSE IF IsSpace(s[i])
         THEN (IF cur = <<>> THEN <<>> ELSE <<cur>>) \o SplitFrom(s, i + 1, <<>>)
         ELSE SplitFrom(s, i + 1, Append(cur, s[i]))

Split(s) == SplitFrom(s, 1, <<>>)

\* sep.join(words)
RECURSIVE Join(_, _)
Join(words, sep) ==
    IF words = <<>> THEN <<>>
    ELSE IF Len(words) = 1 THEN words[1]
    ELSE words[1] \o sep \o Join(Tail(words), sep)

\* s.startswith(p)
StartsWith(s, p) == Len(p) <= Len(s) /\ SubSeq(s, 1, Len(p)) = p

\* s.replace(old, new) for a non-empty old: left to right, non-overlapping
RECURSIVE Replace(_, _, _)
Replace(s, old, new) ==
    IF Len(s) < Len(old) THEN s
    ELSE IF StartsWith(s, old)
         THEN new \o Replace(SubSeq(s, Len(old) + 1, Len(s)), old, new)
         ELSE <<s[1]>> \o Replace(Tail(s), old, new)

\* ------------------------------------------------------------------------
\* Text Normalizer and dedup key
\* ------------------------------------------------------------------------
\* the glyphs removed by text.replace(g, ''); the two non-ASCII glyphs are
\* written by their code points, each standing for one character
BulletGlyphs == {"U+2022", "*", "U+00B7", "-"}

TrailingPunct == {".", ",", ";", ":"}

StopWords == {
    <<"t", "h", "e">>, <<"a">>, <<"a", "n">>, <<"a", "n", "d">>, <<"o", "r">>,
    <<"b", "u", "t">>, <<"i", "n">>, <<"o", "n">>, <<"a", "t">>, <<"t", "o">>,
    <<"f", "o", "r">>, <<"w", "i", "t", "h">>, <<"b", "y">>}

clean_and_deduplicate_text_KeepPunct(text) ==
    IF text = <<>> THEN <<>>
    ELSE LET noGlyphs == RemoveChars(text, BulletGlyphs)
             oneSpaced == Join(Split(noGlyphs), <<" ">>)
         IN  Strip(oneSpaced)

clean_and_deduplicate_text(text) ==
    IF text = <<>> THEN <<>>
    ELSE LET noGlyphs == RemoveChars(text, BulletGlyphs)
             oneSpaced == Join(Split(noGlyphs), <<" ">>)
         IN  Strip(RStrip(oneSpaced, TrailingPunct))

get_comparison_key_NoLower(text) ==
    IF text = <<>> THEN <<>>
    ELSE LET key == SelectSeq(text, LAMBDA c : IsAlnum(c) \/ IsSpace(c))
             key_words == SelectSeq(Split(key), LAMBDA w : w \notin StopWords)
         IN  Join(key_words, <<" ">>)

get_comparison_key(text) ==
    IF text = <<>> THEN <<>>
    ELSE LET key == Lower(SelectSeq(text, LAMBDA c : IsAlnum(c) \/ IsSpace(c)))
             key_words == SelectSeq(Split(key), LAMBDA w : w \notin StopWords)
         IN  Join(key_words, <<" ">>)

\* ------------------------------------------------------------------------
\* Content items: a string, or a dict given as its (key, value) pairs in
\* insertion order
\* ------------------------------------------------------------------------
StrItem(s) == [isdict |-> FALSE, str |-> s, fields |-> <<>>]

DictItem(fs) == [isdict |-> TRUE, str |-> <<>>, fields |-> fs]

Field(k, v) == [k |-> k, v |-> v]

kPoint == <<"p", "o", "i", "n", "t">>

kFeature == <<"f", "e", "a", "t", "u", "r", "e">>

kText == <<"t", "e", "x", "t">>

kIcon == <<"i", "c", "o", "n">>

ProductPlaceholder == <<"[", "P", "r", "o", "d", "u", "c", "t", " ", "N", "a", "m", "e", "]">>

\* dict.get(key, default)
DictGet(item, key, default) ==
    IF \E i \in 1..Len(item.fields) : item.fields[i].k = key
    THEN item.fields[CHOOSE i \in 1..Len(item.fields) : item.fields[i].k = key].v
    ELSE default

\* str(item): the string itself, or the repr of a dict of strings
RECURSIVE ReprFields(_)
ReprFields(fs) ==
    IF fs = <<>> THEN <<>>
    ELSE <<"'">> \o fs[1].k \o <<"'", ":", " ", "'">> \o fs[1].v \o <<"'">>
         \o (IF Len(fs) > 1 THEN <<",", " ">> ELSE <<>>) \o ReprFields(Tail(fs))

StrOf(item) ==
    IF item.isdict THEN <<"{">> \o ReprFields(item.fields) \o <<"}">> ELSE item.str

\* a or b, on strings
OrElse(a, b) == IF a # <<>> THEN a ELSE b

\* the text of an item as deduplicate_content extracts it
ContentText(item) ==
    IF item.isdict
    THEN OrElse(DictGet(item, kPoint, <<>>),
         OrElse(DictGet(item, kFeature, <<>>),
         OrElse(DictGet(item, kText, <<>>), StrOf(item))))
    ELSE StrOf(item)

\* the text of a bullet as deduplicate_bullets extracts it
BulletText(bullet) ==
    IF bullet.isdict
    THEN OrElse(DictGet(bullet, kPoint, <<>>),
         OrElse(DictGet(bullet, kText, <<>>), StrOf(bullet)))
    ELSE StrOf(bullet)

\* ------------------------------------------------------------------------
\* A Python dict with string keys, as the sequence of its (key, value)
\* pairs in insertion order
\* ------------------------------------------------------------------------
HasKey(d, key) == \E i \in 1..Len(d) : d[i].k = key

Lookup(d, key) == d[CHOOSE i \in 1..Len(d) : d[i].k = key].v

\* d[key] = val: a new key goes last, a known key keeps its position
Put(d, key, val) ==
    IF HasKey(d, key)
    THEN [i \in 1..Len(d) |-> IF d[i].k = key THEN Field(key, val) ELSE d[i]]
    ELSE Append(d, Field(key, val))

\* list(d.values())
Values(d) == [i \in 1..Len(d) |-> d[i].v]

\* ------------------------------------------------------------------------
\* Deduplicator
\* ------------------------------------------------------------------------
RECURSIVE BulletsLoop(_, _, _)
BulletsLoop(bullets, i, unique_bullets) ==
    IF i > Len(bullets) THEN unique_bullets
    ELSE LET clean_text == clean_and_deduplicate_text(BulletText(bullets[i]))
             key == get_comparison_key(clean_text)
         IN  IF key = <<>> THEN BulletsLoop(bullets, i + 1, unique_bullets)
             ELSE IF ~HasKey(unique_bullets, key)
                     \/ Len(clean_text) > Len(Lookup(unique_bullets, key))
                  THEN BulletsLoop(bullets, i + 1, Put(unique_bullets, key, clean_text))
                  ELSE BulletsLoop(bullets, i + 1, unique_bullets)

RECURSIVE BulletsLoop_KeepFirst(_, _, _)
BulletsLoop_KeepFirst(bullets, i, unique_bullets) ==
    IF i > Len(bullets) THEN unique_bullets
    ELSE LET clean_text == clean_and_deduplicate_text(BulletText(bullets[i]))
             key == get_comparison_key(clean_text)
         IN  IF key = <<>> \/ HasKey(unique_bullets, key)
             THEN BulletsLoop_KeepFirst(bullets, i + 1, unique_bullets)
             ELSE BulletsLoop_KeepFirst(bullets, i + 1, Put(unique_bullets, key, clean_text))

deduplicate_bullets_KeepFirst(bullets) ==
    IF bullets = <<>> THEN <<>> ELSE Values(BulletsLoop_KeepFirst(bullets, 1, <<>>))

deduplicate_bullets(bullets) ==
    IF bullets = <<>> THEN <<>> ELSE Values(BulletsLoop(bullets, 1, <<>>))

\* item.copy() with "[Product Name]" replaced in every string value
ItemCopy(item, product_name) ==
    DictItem([i \in 1..Len(item.fields) |->
        Field(item.fields[i].k,
              IF product_name # <<>>
              THEN Replace(item.fields[i].v, ProductPlaceholder, product_name)
              ELSE item.fields[i].v)])

RECURSIVE ContentLoop(_, _, _, _, _)
ContentLoop(content_list, product_name, i, seen_points, cleaned_content) ==
    IF i > Len(content_list) THEN cleaned_content
    ELSE LET item == content_list[i]
             clean_text == clean_and_deduplicate_text(ContentText(item))
             key == get_comparison_key(clean_text)
         IN  IF clean_text = <<>> \/ key = <<>>
             THEN ContentLoop(content_list, product_name, i + 1, seen_points, cleaned_content)
             ELSE IF ~HasKey(seen_points, key)
                     \/ Len(clean_text) > Len(Lookup(seen_points, key))
                  THEN ContentLoop(content_list, product_name, i + 1,
                           Put(seen_points, key, clean_text),
                           Append(cleaned_content,
                               IF item.isdict
                               THEN ItemCopy(item, product_name)
                               ELSE StrItem(IF product_name # <<>>
                                            THEN Replace(clean_text, ProductPlaceholder, product_name)
                                            ELSE clean_text)))
                  ELSE ContentLoop(content_list, product_name, i + 1, seen_points, cleaned_content)

deduplicate_content(content_list, product_name) ==
    ContentLoop(content_list, product_name, 1, <<>>, <<>>)

\* ------------------------------------------------------------------------
\* Truncator and sentence completion
\* ------------------------------------------------------------------------
DefaultMaxChars == 100

DefaultMaxWords == 20

SentenceEnd == {".", "!", "?"}

\* the value a call returns, or the fact that it raised
Returned(t) == [raised |-> FALSE, text |-> t]

Raised == [raised |-> TRUE, text |-> <<>>]

\* text.rfind(c, 0, end): the last 0-based index below end holding c, or -1
RFind(s, c, end) ==
    LET hits == {j \in 1..Len(s) : j <= end /\ s[j] = c}
    IN  IF hits = {} THEN -1 ELSE (CHOOSE j \in hits : \A h \in hits : h <= j) - 1

Max3(a, b, c) ==
    IF a >= b /\ a >= c THEN a ELSE IF b >= c THEN b ELSE c

\* the prefix -> completion table, in the order the dict is written
Endings == <<
    [partial |-> <<"m", "a", "n", "u", "a">>,
     complete |-> <<"m", "a", "n", "u", "a", "l", " ", "p", "r", "o", "c", "e", "s", "s", "e", "s", ".">>],
    [partial |-> <<"v", "u", "l", "n", "e", "r", "a", "b">>,
     complete |-> <<"v", "u", "l", "n", "e", "r", "a", "b", "i", "l", "i", "t", "y", " ", "m", "a", "n", "a", "g", "e", "m", "e", "n", "t", ".">>],
    [partial |-> <<"e", "f", "f", "i", "c", "i", "e", "n">>,
     complete |-> <<"e", "f", "f", "i", "c", "i", "e", "n", "c", "y", ".">>],
    [partial |-> <<"s", "e", "c", "u", "r">>,
     complete |-> <<"s", "e", "c", "u", "r", "i", "t", "y", " ", "m", "e", "a", "s", "u", "r", "e", "s", ".">>],
    [partial |-> <<"c", "o", "m", "p", "l", "i", "a", "n">>,
     complete |-> <<"c", "o", "m", "p", "l", "i", "a", "n", "c", "e", " ", "r", "e", "q", "u", "i", "r", "e", "m", "e", "n", "t", "s", ".">>],
    [partial |-> <<"d", "e", "t", "e", "c", "t">>,
     complete |-> <<"d", "e", "t", "e", "c", "t", "i", "o", "n", " ", "c", "a", "p", "a", "b", "i", "l", "i", "t", "i", "e", "s", ".">>],
    [partial |-> <<"a", "u", "t", "o", "m", "a">>,
     complete |-> <<"a", "u", "t", "o", "m", "a", "t", "i", "o", "n", " ", "c", "a", "p", "a", "b", "i", "l", "i", "t", "i", "e", "s", ".">>],
    [partial |-> <<"r", "e", "s", "p", "o", "n">>,
     complete |-> <<"r", "e", "s", "p", "o", "n", "s", "e", " ", "p", "r", "o", "c", "e", "d", "u", "r", "e", "s", ".">>],
    [partial |-> <<"s", "o", "p", "h", "i", "s", "t", "i">>,
     complete |-> <<"s", "o", "p", "h", "i", "s", "t", "i", "c", "a", "t", "e", "d", " ", "a", "p", "p", "r", "o", "a", "c", "h", ".">>],
    [partial |-> <<"i", "n", "t", "e", "g", "r", "a">>,
     complete |-> <<"i", "n", "t", "e", "g", "r", "a", "t", "i", "o", "n", " ", "c", "a", "p", "a", "b", "i", "l", "i", "t", "i", "e", "s", ".">>],
    [partial |-> <<"p", "l", "a", "t", "f", "o", "r">>,
     complete |-> <<"p", "l", "a", "t", "f", "o", "r", "m", " ", "f", "e", "a", "t", "u", "r", "e", "s", ".">>],
    [partial |-> <<"s", "o", "l", "u", "t", "i">>,
     complete |-> <<"s", "o", "l", "u", "t", "i", "o", "n", " ", "b", "e", "n", "e", "f", "i", "t", "s", ".">>],
    [partial |-> <<"a", "n", "a", "l", "y">>,
     complete |-> <<"a", "n", "a", "l", "y", "s", "i", "s", " ", "c", "a", "p", "a", "b", "i", "l", "i", "t", "i", "e", "s", ".">>],
    [partial |-> <<"m", "o", "n", "i", "t", "o", "r">>,
     complete |-> <<"m", "o", "n", "i", "t", "o", "r", "i", "n", "g", " ", "s", "y", "s", "t", "e", "m", ".">>],
    [partial |-> <<"p", "r", "o", "t", "e", "c", "t">>,
     complete |-> <<"p", "r", "o", "t", "e", "c", "t", "i", "o", "n", " ", "m", "e", "a", "s", "u", "r", "e", "s", ".">>]>>

\* text + "." when the text ends with an alphanumeric character
WithPeriod(text) == IF IsAlnum(text[Len(text)]) THEN Append(text, ".") ELSE text

\* entry e of the table applies to the last word
EndingApplies(last_word, e) ==
    /\ StartsWith(last_word, e.partial)
    /\ last_word # Lower(Split(e.complete)[1])

\* the for loop over the table: the first entry that applies rewrites the
\* last word, and the loop breaks
CompleteLastWord(text) ==
    LET words == Split(text)
        last_word == Lower(words[Len(words)])
        hits == {i \in 1..Len(Endings) : EndingApplies(last_word, Endings[i])}
    IN  IF hits = {} THEN text
        ELSE LET first == CHOOSE i \in hits : \A h \in hits : i <= h
             IN  Join(SubSeq(words, 1, Len(words) - 1), <<" ">>)
                 \o <<" ">> \o Endings[first].complete

ensure_complete_sentences(text) ==
    IF text = <<>> THEN Returned(text)
    ELSE LET stripped == RStrip(RStrip(text, {".", " "}), {"."})
         IN  IF stripped = <<>> THEN Raised   \* text[-1] of an empty string
             ELSE Returned(CompleteLastWord(WithPeriod(stripped)))

\* the text of truncate_text_for_slide before sentence completion, and the
\* branch that produced it
TruncateCut(text0, max_chars0, max_words0) ==
    LET max_chars == IF max_chars0 = 0 THEN DefaultMaxChars ELSE max_chars0
        max_words == IF max_words0 = 0 THEN DefaultMaxWords ELSE max_words0
        text == Strip(text0)
        words == Split(text)
    IN  IF Len(words) <= max_words /\ Len(text) <= max_chars
        THEN [branch |-> "pass", text |-> text]
        ELSE LET cut == IF Len(words) > max_words
                        THEN Join(SubSeq(words, 1, max_words), <<" ">>)
                        ELSE text
             IN  IF Len(cut) <= max_chars
                 THEN [branch |-> "words", text |-> cut]
                 ELSE LET last_sentence_end ==
                              Max3(RFind(cut, ".", max_chars),
                                   RFind(cut, "!", max_chars),
                                   RFind(cut, "?", max_chars))
                          last_space == RFind(cut, " ", max_chars)
                      IN  IF last_sentence_end > 0
                          THEN [branch |-> "sentence",
                                text |-> Strip(SubSeq(cut, 1, last_sentence_end + 1))]
                          ELSE IF last_space > 0
                          THEN [branch |-> "space",
                                text |-> Strip(SubSeq(cut, 1, last_space))]
                          ELSE [branch |-> "hard",
                                text |-> Strip(SubSeq(cut, 1, max_chars))]

truncate_text_for_slide(text, max_chars, max_words) ==
    IF text = <<>> THEN Returned(<<>>)
    ELSE ensure_complete_sentences(TruncateCut(text, max_chars, max_words).text)

\* ------------------------------------------------------------------------
\* Persona/Style Resolver
\* ------------------------------------------------------------------------
technical == <<"t", "e", "c", "h", "n", "i", "c", "a", "l">>

executive == <<"e", "x", "e", "c", "u", "t", "i", "v", "e">>

business == <<"b", "u", "s", "i", "n", "e", "s", "s">>

\* the keys of the two persona tables
PresentationStyleKeys == {technical, executive, business}

PersonaContentKeys == {technical, executive, business}

\* a style argument: a string, or a value that is not a string
StrValue(s) == [isstr |-> TRUE, s |-> s]

NonString == [isstr |-> FALSE, s |-> <<>>]

normalize_style_NoFallback(style) ==
    IF ~style.isstr THEN business ELSE Lower(style.s)

normalize_style(style) ==
    IF ~style.isstr THEN business
    ELSE LET lowered == Lower(style.s)
         IN  IF lowered \in PresentationStyleKeys THEN lowered ELSE business

\* ------------------------------------------------------------------------
\* Slide Order Planner
\* ------------------------------------------------------------------------
SlideTypes == {
    "title_slide", "problem_slide", "solution_slide", "features_slide",
    "advantage_slide", "audience_slide", "market_slide", "roadmap_slide",
    "team_slide", "cta_slide"}

core_slides(persona) ==
    IF persona = technical
    THEN <<"title_slide", "problem_slide", "solution_slide", "features_slide", "advantage_slide">>
    ELSE IF persona = executive
    THEN <<"title_slide", "problem_slide", "market_slide", "solution_slide", "advantage_slide">>
    ELSE <<"title_slide", "problem_slide", "solution_slide", "features_slide">>

supporting_slides(persona) ==
    IF persona = technical THEN <<"roadmap_slide", "audience_slide">>
    ELSE IF persona = executive THEN <<"features_slide", "audience_slide">>
    ELSE <<"advantage_slide", "audience_slide">>

optional_slides(persona) ==
    IF persona = technical THEN <<"market_slide">>
    ELSE IF persona = executive THEN <<"roadmap_slide">>
    ELSE <<"market_slide", "roadmap_slide">>

\* the slide order of create_presentation; keys are the keys of the content
\* bundle, custom the custom_slide_order argument (<<>> when None or empty)
PlanSlideOrder_NoFilter(keys, persona, team_config, custom) ==
    IF custom # <<>> THEN custom
    ELSE LET declared == core_slides(persona) \o supporting_slides(persona)
                             \o optional_slides(persona)
             with_team ==
                 IF team_config.include_team_slide /\ team_config.team_members # <<>>
                 THEN Append(declared, "team_slide")
                 ELSE declared
         IN  IF "cta_slide" \in keys /\ "cta_slide" \notin Range(with_team)
             THEN Append(with_team, "cta_slide")
             ELSE with_team

PlanSlideOrder_SupportingFirst(keys, persona, team_config, custom) ==
    IF custom # <<>> THEN custom
    ELSE LET declared == supporting_slides(persona) \o core_slides(persona)
                             \o optional_slides(persona)
             present == SelectSeq(declared, LAMBDA t : t \in keys)
             with_team ==
                 IF team_config.include_team_slide /\ team_config.team_members # <<>>
                 THEN Append(present, "team_slide")
                 ELSE present
         IN  IF "cta_slide" \in keys /\ "cta_slide" \notin Range(with_team)
             THEN Append(with_team, "cta_slide")
             ELSE with_team

PlanSlideOrder(keys, persona, team_config, custom) ==
    IF custom # <<>> THEN custom
    ELSE LET declared == core_slides(persona) \o supporting_slides(persona)
                             \o optional_slides(persona)
             present == SelectSeq(declared, LAMBDA t : t \in keys)
             with_team ==
                 IF team_config.include_team_slide /\ team_config.team_members # <<>>
                 THEN Append(present, "team_slide")
                 ELSE present
         IN  IF "cta_slide" \in keys /\ "cta_slide" \notin Range(with_team)
             THEN Append(with_team, "cta_slide")
             ELSE with_team

\* the placeholder names and titles of create_team_slide_wrapper
generic_names == {
    "John Doe", "Jane Smith", "Team Member", "CEO", "CTO", "Manager",
    "Chief Executive Officer", "Chief Technology Officer", "Chief Operating Officer",
    "COO", "CFO", "CMO", "Director", "VP", "Vice President"}

\* some member of the roster has a name that is neither empty nor generic
\* and a title that is not generic
has_real_names(team_members) ==
    \E i \in 1..Len(team_members) :
        /\ team_members[i].name # ""
        /\ team_members[i].name \notin generic_names
        /\ team_members[i].title \notin generic_names

\* ------------------------------------------------------------------------
\* Content Merger: persona defaults merged into the content bundle
\* ------------------------------------------------------------------------
\* field values: a string, a list, or None
StrV(x) == [kind |-> "str", str |-> x, items |-> <<>>]

ListV(xs) == [kind |-> "list", str |-> "", items |-> xs]

NoneV == [kind |-> "none", str |-> "", items |-> <<>>]

\* list elements: a string, or a dict (which cannot be hashed)
Hashable(x) == [hashable |-> TRUE, v |-> x]

Unhashable == [hashable |-> FALSE, v |-> "{}"]

\* bool(value)
Truthy(v) == (v.kind = "str" /\ v.str # "") \/ (v.kind = "list" /\ v.items # <<>>)

\* the value of a slide type in the bundle: a dict, or something that is not
\* one (a string)
Mapping(fields) == [mapping |-> TRUE, fields |-> fields]

NotMapping == [mapping |-> FALSE, fields |-> <<>>]

\* PERSONA_CONTENT.get(persona, PERSONA_CONTENT['business'])
PERSONA_CONTENT(persona) ==
    IF persona = technical
    THEN <<
      Field("problem_slide", Mapping(<<
        Field("title", StrV("Technical Challenges")),
        Field("bullets", ListV(<<
            Hashable("Complex integration requirements with legacy systems"),
            Hashable("Scalability limitations in current architecture"),
            Hashable("Manual deployment and configuration processes"),
            Hashable("Limited visibility into system performance metrics"),
            Hashable("Technical debt from outdated infrastructure"),
            Hashable("Resource-intensive maintenance procedures")>>))>>)),
      Field("solution_slide", Mapping(<<
        Field("title", StrV("Technical Solution Architecture")),
        Field("description", StrV("Our solution leverages modern microservices architecture with containerized deployments for optimal scalability and maintainability.")),
        Field("features", ListV(<<
            Hashable("Containerized microservices deployment"),
            Hashable("RESTful API integration capabilities"),
            Hashable("Automated CI/CD pipeline integration"),
            Hashable("Real-time monitoring and logging"),
            Hashable("Horizontal scaling with Kubernetes")>>))>>)),
      Field("advantage_slide", Mapping(<<
        Field("title", StrV("Technical Advantages")),
        Field("bullets", ListV(<<
            Hashable("99.99% system availability with redundant architecture"),
            Hashable("Sub-millisecond response times for API endpoints"),
            Hashable("Zero-downtime deployments with blue-green strategy"),
            Hashable("Comprehensive API documentation and SDKs"),
            Hashable("Advanced debugging and monitoring tools")>>))>>)),
      Field("cta_slide", Mapping(<<
        Field("title", StrV("Ready to Enhance Your Technical Infrastructure?")),
        Field("cta_text", StrV("Schedule a technical deep-dive session today")),
        Field("contact_info", StrV("Contact our solutions architects to begin"))>>))>>
    ELSE IF persona = executive
    THEN <<
      Field("problem_slide", Mapping(<<
        Field("title", StrV("Strategic Business Challenges")),
        Field("bullets", ListV(<<
            Hashable("Increasing operational costs impacting bottom line"),
            Hashable("Market share erosion from digital competitors"),
            Hashable("Risk exposure from legacy systems"),
            Hashable("Inefficient resource allocation"),
            Hashable("Compliance and regulatory pressures"),
            Hashable("Limited business agility and innovation")>>))>>)),
      Field("solution_slide", Mapping(<<
        Field("title", StrV("Strategic Business Solution")),
        Field("description", StrV("Our enterprise solution delivers measurable ROI through operational efficiency, risk reduction, and enhanced business capabilities.")),
        Field("features", ListV(<<
            Hashable("Comprehensive business intelligence dashboard"),
            Hashable("Executive-level reporting and analytics"),
            Hashable("Strategic resource optimization"),
            Hashable("Risk management framework"),
            Hashable("Compliance automation suite")>>))>>)),
      Field("advantage_slide", Mapping(<<
        Field("title", StrV("Business Impact & ROI")),
        Field("bullets", ListV(<<
            Hashable("30% reduction in operational costs"),
            Hashable("40% improvement in resource utilization"),
            Hashable("60% faster time-to-market for new initiatives"),
            Hashable("25% increase in customer satisfaction"),
            Hashable("Demonstrated ROI within 6 months")>>))>>)),
      Field("cta_slide", Mapping(<<
        Field("title", StrV("Ready to Drive Business Growth?")),
        Field("cta_text", StrV("Transform your business today")),
        Field("contact_info", StrV("Contact our executive team to discuss your goals"))>>))>>
    ELSE <<
      Field("problem_slide", Mapping(<<
        Field("title", StrV("Business Operations Challenges")),
        Field("bullets", ListV(<<
            Hashable("Inefficient workflow processes causing delays"),
            Hashable("Data silos limiting business insights"),
            Hashable("Manual reporting consuming valuable time"),
            Hashable("Inconsistent customer experience"),
            Hashable("Resource allocation inefficiencies"),
            Hashable("Limited scalability for growth")>>))>>)),
      Field("solution_slide", Mapping(<<
        Field("title", StrV("Business Process Solution")),
        Field("description", StrV("Our solution streamlines operations, automates workflows, and provides actionable insights for better business decisions.")),
        Field("features", ListV(<<
            Hashable("Automated workflow management"),
            Hashable("Intuitive business process designer"),
            Hashable("Real-time performance analytics"),
            Hashable("Customizable reporting dashboard"),
            Hashable("Integration with existing tools")>>))>>)),
      Field("advantage_slide", Mapping(<<
        Field("title", StrV("Operational Benefits")),
        Field("bullets", ListV(<<
            Hashable("Streamlined business processes"),
            Hashable("Enhanced operational visibility"),
            Hashable("Improved team collaboration"),
            Hashable("Reduced manual workload"),
            Hashable("Better resource utilization")>>))>>)),
      Field("cta_slide", Mapping(<<
        Field("title", StrV("Ready to Streamline Your Operations?")),
        Field("cta_text", StrV("Start optimizing your business processes")),
        Field("contact_info", StrV("Contact us to begin your transformation"))>>))>>

\* list(dict.fromkeys(xs)) for hashable elements
RECURSIVE FromKeys(_, _)
FromKeys(xs, seen) ==
    IF xs = <<>> THEN seen
    ELSE FromKeys(Tail(xs), IF Head(xs) \in Range(seen) THEN seen ELSE Append(seen, Head(xs)))

\* the loop over the default's fields from its i-th field; raised tells
\* that dict.fromkeys met an element it cannot hash
RECURSIVE MergeFields(_, _, _)
MergeFields(merged_fields, slide_content, i) ==
    IF i > Len(slide_content) THEN [raised |-> FALSE, fields |-> merged_fields]
    ELSE LET key == slide_content[i].k
             value == slide_content[i].v
         IN  IF ~HasKey(merged_fields, key) \/ ~Truthy(Lookup(merged_fields, key))
             THEN MergeFields(Put(merged_fields, key, value), slide_content, i + 1)
             ELSE IF value.kind = "list" /\ Lookup(merged_fields, key).kind = "list"
             THEN LET both == Lookup(merged_fields, key).items \o value.items
                  IN  IF \E j \in 1..Len(both) : ~both[j].hashable
                      THEN [raised |-> TRUE, fields |-> merged_fields]
                      ELSE MergeFields(Put(merged_fields, key, ListV(FromKeys(both, <<>>))),
                                       slide_content, i + 1)
             ELSE MergeFields(merged_fields, slide_content, i + 1)

RECURSIVE MergeFields_NoDedup(_, _, _)
MergeFields_NoDedup(merged_fields, slide_content, i) ==
    IF i > Len(slide_content) THEN [raised |-> FALSE, fields |-> merged_fields]
    ELSE LET key == slide_content[i].k
             value == slide_content[i].v
         IN  IF ~HasKey(merged_fields, key) \/ ~Truthy(Lookup(merged_fields, key))
             THEN MergeFields_NoDedup(Put(merged_fields, key, value), slide_content, i + 1)
             ELSE IF value.kind = "list" /\ Lookup(merged_fields, key).kind = "list"
             THEN LET both == Lookup(merged_fields, key).items \o value.items
                  IN  IF \E j \in 1..Len(both) : ~both[j].hashable
                      THEN [raised |-> TRUE, fields |-> merged_fields]
                      ELSE MergeFields_NoDedup(Put(merged_fields, key, ListV(both)),
                                               slide_content, i + 1)
             ELSE MergeFields_NoDedup(merged_fields, slide_content, i + 1)

MergeAttempt_NoDedup(user, default) ==
    IF ~user.mapping THEN [raised |-> TRUE, fields |-> <<>>]
    ELSE MergeFields_NoDedup(user.fields, default.fields, 1)

\* the body of the try for one slide type: .copy() and the field loop
MergeAttempt(user, default) ==
    IF ~user.mapping THEN [raised |-> TRUE, fields |-> <<>>]
    ELSE MergeFields(user.fields, default.fields, 1)

\* the merge loop from the i-th slide type of the persona defaults; failed
\* collects the slide types whose merge raised
RECURSIVE MergeLoop_NoHandler(_, _, _, _)
MergeLoop_NoHandler(bundle, persona_content, i, failed) ==
    IF i > Len(persona_content)
    THEN [raised |-> FALSE, content |-> bundle, failed |-> failed]
    ELSE LET slide_type == persona_content[i].k
             slide_content == persona_content[i].v
         IN  IF ~HasKey(bundle, slide_type)
             THEN MergeLoop_NoHandler(bundle, persona_content, i + 1, failed)
             ELSE LET m == MergeAttempt(Lookup(bundle, slide_type), slide_content)
                  IN  IF m.raised
                      THEN [raised |-> TRUE, content |-> bundle,
                            failed |-> failed \cup {slide_type}]
                      ELSE MergeLoop_NoHandler(Put(bundle, slide_type, Mapping(m.fields)),
                                               persona_content, i + 1, failed)

RECURSIVE MergeLoop(_, _, _, _)
MergeLoop(bundle, persona_content, i, failed) ==
    IF i > Len(persona_content)
    THEN [raised |-> FALSE, content |-> bundle, failed |-> failed]
    ELSE LET slide_type == persona_content[i].k
             slide_content == persona_content[i].v
         IN  IF ~HasKey(bundle, slide_type)
             THEN MergeLoop(bundle, persona_content, i + 1, failed)
             ELSE LET m == MergeAttempt(Lookup(bundle, slide_type), slide_content)
                  IN  IF m.raised
                      THEN MergeLoop(Put(bundle, slide_type, slide_content),
                                     persona_content, i + 1, failed \cup {slide_type})
                      ELSE MergeLoop(Put(bundle, slide_type, Mapping(m.fields)),
                                     persona_content, i + 1, failed)

MergeContent_NoHandler(bundle, persona) ==
    MergeLoop_NoHandler(bundle, PERSONA_CONTENT(persona), 1, {})

\* the merge step of create_presentation
MergeContent(bundle, persona) ==
    MergeLoop(bundle, PERSONA_CONTENT(persona), 1, {})

\* ------------------------------------------------------------------------
\* Slide builders, as the build loop of create_presentation sees them
\* ------------------------------------------------------------------------
\* a field of a slide record that may be missing
Absent == [present |-> FALSE, value |-> <<>>]

Present(v) == [present |-> TRUE, value |-> v]

additional_advantages == <<
    "Industry-leading innovation and technology",
    "Proven track record of success",
    "Comprehensive support and resources">>

\* the limits create_market_slide_wrapper passes to the Truncator
MarketMaxChars == 200

MarketMaxWords == 35

\* the slide types the build loop dispatches to a builder it calls directly
DirectBuilders == {
    "title_slide", "problem_slide", "solution_slide", "features_slide",
    "advantage_slide", "audience_slide", "cta_slide"}

\* the description create_market_slide_wrapper stores before it builds
MarketDescription(market) ==
    IF market.description.present
    THEN truncate_text_for_slide(market.description.value, MarketMaxChars, MarketMaxWords)
    ELSE Returned(<<>>)

\* create_team_slide_wrapper returns before building anything
TeamSlideDeclined(team, include_team_slide) ==
    \/ ~include_team_slide
    \/ team.team_members = <<>>
    \/ ~has_real_names(team.team_members)

\* What one iteration of the build loop can come to for an entry of the slide
\* order: "skipped" (not a key of the content), "built", "fallback" (the
\* wrapper caught a failure and added the fallback slide), "dropped" (the
\* wrapper caught a failure and added nothing), "none" (no slide asked for,
\* the loop goes on) or "raised" (an exception left the loop).
BuildOutcomes_NoKeyTest(slide_type, keys, content, include_team_slide) ==
    IF slide_type \notin keys THEN {"raised"}
    ELSE IF slide_type = "market_slide"
    THEN IF MarketDescription(content.market_slide).raised
         THEN {"raised"} ELSE {"built", "fallback"}
    ELSE IF slide_type = "roadmap_slide" THEN {"built", "fallback"}
    ELSE IF slide_type = "team_slide"
    THEN IF TeamSlideDeclined(content.team_slide, include_team_slide)
         THEN {"none"} ELSE {"built", "dropped"}
    ELSE IF slide_type \in DirectBuilders THEN {"built", "raised"}
    ELSE {"none"}

BuildOutcomes(slide_type, keys, content, include_team_slide) ==
    IF slide_type \notin keys THEN {"skipped"}
    ELSE IF slide_type = "market_slide"
    THEN IF MarketDescription(content.market_slide).raised
         THEN {"raised"} ELSE {"built", "fallback"}
    ELSE IF slide_type = "roadmap_slide" THEN {"built", "fallback"}
    ELSE IF slide_type = "team_slide"
    THEN IF TeamSlideDeclined(content.team_slide, include_team_slide)
         THEN {"none"} ELSE {"built", "dropped"}
    ELSE IF slide_type \in DirectBuilders THEN {"built", "raised"}
    ELSE {"none"}

\* create_advantage_slide takes the list under "differentiators", else the
\* one under "bullets", and extends that very list
AdvantageAfter(advantage) ==
    IF advantage.differentiators.present
    THEN [advantage EXCEPT !.differentiators =
              Present(advantage.differentiators.value \o additional_advantages)]
    ELSE [advantage EXCEPT !.bullets = advantage.bullets \o additional_advantages]

\* the content after one iteration; extended tells whether
\* create_advantage_slide got as far as extending its list
ContentAfter(slide_type, content, outcome, extended) ==
    IF outcome = "skipped" THEN content
    ELSE IF slide_type = "advantage_slide" /\ extended
    THEN [content EXCEPT !.advantage_slide = AdvantageAfter(content.advantage_slide)]
    ELSE IF slide_type = "market_slide" /\ content.market_slide.description.present
              /\ outcome # "raised"
    THEN [content EXCEPT !.market_slide.description =
              Present(MarketDescription(content.market_slide).text)]
    ELSE content

\* ------------------------------------------------------------------------
\* Image Cache: fetch_image_with_cache and fetch_unique_image
\* ------------------------------------------------------------------------
\* image bytes are told apart by their content; NoImage is Python's None
Images == {"p", "q", "r"}

NoImage == "None"

\* hashlib.md5(bytes).hexdigest(): equal exactly for equal bytes
ImageHash(img) == <<"md5", img>>

\* the key of a slide type in st.session_state.original_images_cache
CacheKey(slide_type) == <<slide_type, "_slide">>

\* the session store: whether 'original_images_cache' is in the session state,
\* and the bytes it holds per key
NoStore == [exists |-> FALSE, images |-> <<>>]

Cached(cache, slide_type) ==
    IF cache.exists /\ CacheKey(slide_type) \in DOMAIN cache.images
    THEN cache.images[CacheKey(slide_type)]
    ELSE NoImage

CacheStore(cache, slide_type, img) ==
    IF cache.exists
    THEN [cache EXCEPT !.images =
              [k \in DOMAIN cache.images \cup {CacheKey(slide_type)} |->
                  IF k = CacheKey(slide_type) THEN img ELSE cache.images[k]]]
    ELSE cache

\* range(3) in fetch_unique_image
UniqueRetries == 3

\* the result of a call: the image returned, the used_images set and the
\* session store after it, and the results of the fetches it made
ImageResult(img, used, cache, fetched) ==
    [image |-> img, used_images |-> used, cache |-> cache, fetched |-> fetched]

\* the loop of fetch_unique_image from its i-th iteration; fetches[i] is what
\* the i-th call of fetch_image_for_slide returns
RECURSIVE UniqueLoop_AnyHash(_, _, _, _, _)
UniqueLoop_AnyHash(i, slide_type, used, cache, fetches) ==
    IF i > UniqueRetries
    THEN ImageResult(NoImage, used, cache, SubSeq(fetches, 1, UniqueRetries))
    ELSE IF fetches[i] = NoImage
    THEN ImageResult(NoImage, used, cache, SubSeq(fetches, 1, i))
    ELSE ImageResult(fetches[i], used \cup {ImageHash(fetches[i])},
                     CacheStore(cache, slide_type, fetches[i]), SubSeq(fetches, 1, i))

RECURSIVE UniqueLoop(_, _, _, _, _)
UniqueLoop(i, slide_type, used, cache, fetches) ==
    IF i > UniqueRetries
    THEN ImageResult(NoImage, used, cache, SubSeq(fetches, 1, UniqueRetries))
    ELSE IF fetches[i] = NoImage
    THEN ImageResult(NoImage, used, cache, SubSeq(fetches, 1, i))
    ELSE IF ImageHash(fetches[i]) \notin used
    THEN ImageResult(fetches[i], used \cup {ImageHash(fetches[i])},
                     CacheStore(cache, slide_type, fetches[i]), SubSeq(fetches, 1, i))
    ELSE UniqueLoop(i + 1, slide_type, used, cache, fetches)

fetch_unique_image_Once(slide_type, is_new, used, cache, fetches) ==
    IF ~is_new THEN ImageResult(NoImage, used, cache, <<>>)
    ELSE IF fetches[1] # NoImage /\ ImageHash(fetches[1]) \notin used
    THEN ImageResult(fetches[1], used \cup {ImageHash(fetches[1])},
                     CacheStore(cache, slide_type, fetches[1]), SubSeq(fetches, 1, 1))
    ELSE ImageResult(NoImage, used, cache, SubSeq(fetches, 1, 1))

fetch_unique_image_AnyHash(slide_type, is_new, used, cache, fetches) ==
    IF ~is_new THEN ImageResult(NoImage, used, cache, <<>>)
    ELSE UniqueLoop_AnyHash(1, slide_type, used, cache, fetches)

fetch_unique_image(slide_type, is_new, used, cache, fetches) ==
    IF ~is_new THEN ImageResult(NoImage, used, cache, <<>>)
    ELSE UniqueLoop(1, slide_type, used, cache, fetches)

fetch_image_with_cache_AlwaysFetch(slide_type, is_new, used, cache, fetches) ==
    LET cached_data == Cached(cache, slide_type)
    IN  IF cached_data # NoImage
        THEN IF ImageHash(cached_data) \notin used
             THEN ImageResult(cached_data, used \cup {ImageHash(cached_data)}, cache, <<>>)
             ELSE IF ~is_new
             THEN ImageResult(cached_data, used, cache, <<>>)
             ELSE fetch_unique_image(slide_type, is_new, used, cache, fetches)
        ELSE UniqueLoop(1, slide_type, used, cache, fetches)

fetch_image_with_cache_NoReuse(slide_type, is_new, used, cache, fetches) ==
    LET cached_data == Cached(cache, slide_type)
    IN  IF cached_data # NoImage
        THEN IF ImageHash(cached_data) \notin used
             THEN ImageResult(cached_data, used \cup {ImageHash(cached_data)}, cache, <<>>)
             ELSE fetch_unique_image(slide_type, is_new, used, cache, fetches)
        ELSE IF is_new
        THEN fetch_unique_image(slide_type, is_new, used, cache, fetches)
        ELSE ImageResult(NoImage, used, cache, <<>>)

fetch_image_with_cache(slide_type, is_new, used, cache, fetches) ==
    LET cached_data == Cached(cache, slide_type)
    IN  IF cached_data # NoImage
        THEN IF ImageHash(cached_data) \notin used
             THEN ImageResult(cached_data, used \cup {ImageHash(cached_data)}, cache, <<>>)
             ELSE IF ~is_new
             THEN ImageResult(cached_data, used, cache, <<>>)
             ELSE fetch_unique_image(slide_type, is_new, used, cache, fetches)
        ELSE IF is_new
        THEN fetch_unique_image(slide_type, is_new, used, cache, fetches)
        ELSE ImageResult(NoImage, used, cache, <<>>)

\* ------------------------------------------------------------------------
\* Image search: fetch_image_for_slide and fetch_image_from_unsplash
\* ------------------------------------------------------------------------
\* what a call hands back: image bytes from the search, the placeholder image
\* of a slide type, or None
SearchImage(data) == [kind |-> "image", data |-> data]

PlaceholderImage(slide_type) == [kind |-> "placeholder", data |-> slide_type]

Nothing == [kind |-> "none", data |-> ""]

\* how one request to the image search can go: no API key, a response
\* other than 200, a 200 response without results, an exception of the HTTP
\* client, or a result whose image comes with status 200
SearchFailure(how) == [kind |-> how, data |-> ""]

SearchFailures == {SearchFailure(how) : how \in {"no_key", "bad_status", "empty", "exception"}}

SearchOutcomes == SearchFailures \cup {SearchImage(b) : b \in Images}

\* fetch_image_from_unsplash: every failure, its own exceptions included,
\* comes back as None
fetch_image_from_unsplash(outcome) ==
    IF outcome \in SearchFailures
    THEN [raised |-> FALSE, image |-> Nothing]
    ELSE [raised |-> FALSE, image |-> outcome]

\* max_retries of fetch_image_for_slide
max_retries == 3

SearchResult(raised, image, attempts) ==
    [raised |-> raised, image |-> image, attempts |-> attempts]

\* the retry loop from its attempt-th pass; outcomes[i] is how the i-th
\* request goes
RECURSIVE SearchLoop_NoPlaceholder(_, _, _)
SearchLoop_NoPlaceholder(attempt, slide_type, outcomes) ==
    IF attempt > max_retries
    THEN SearchResult(FALSE, Nothing, max_retries)
    ELSE LET r == fetch_image_from_unsplash(outcomes[attempt])
         IN  IF r.raised
             THEN IF attempt = max_retries
                  THEN SearchResult(FALSE, Nothing, attempt)
                  ELSE SearchLoop_NoPlaceholder(attempt + 1, slide_type, outcomes)
             ELSE IF r.image # Nothing
             THEN SearchResult(FALSE, r.image, attempt)
             ELSE SearchLoop_NoPlaceholder(attempt + 1, slide_type, outcomes)

RECURSIVE SearchLoop(_, _, _)
SearchLoop(attempt, slide_type, outcomes) ==
    IF attempt > max_retries
    THEN SearchResult(FALSE, PlaceholderImage(slide_type), max_retries)
    ELSE LET r == fetch_image_from_unsplash(outcomes[attempt])
         IN  IF r.raised
             THEN IF attempt = max_retries
                  THEN SearchResult(FALSE, PlaceholderImage(slide_type), attempt)
                  ELSE SearchLoop(attempt + 1, slide_type, outcomes)
             ELSE IF r.image # Nothing
             THEN SearchResult(FALSE, r.image, attempt)
             ELSE SearchLoop(attempt + 1, slide_type, outcomes)

fetch_image_for_slide_NoPlaceholder(slide_type, use_placeholders, outcomes) ==
    IF use_placeholders
    THEN SearchResult(FALSE, PlaceholderImage(slide_type), 0)
    ELSE SearchLoop_NoPlaceholder(1, slide_type, outcomes)

\* fetch_image_for_slide for a slide type whose search query is at hand
fetch_image_for_slide(slide_type, use_placeholders, outcomes) ==
    IF use_placeholders
    THEN SearchResult(FALSE, PlaceholderImage(slide_type), 0)
    ELSE SearchLoop(1, slide_type, outcomes)

\* ------------------------------------------------------------------------
\* Inputs of the Deduplicator
\* ------------------------------------------------------------------------
ManualDeploymentDot == <<"M", "a", "n", "u", "a", "l", " ", "d", "e", "p", "l", "o", "y", "m", "e", "n", "t", ".">>

ManualDeploymentLower == <<"m", "a", "n", "u", "a", "l", " ", "d", "e", "p", "l", "o", "y", "m", "e", "n", "t">>

ManualDeploymentClean == <<"M", "a", "n", "u", "a", "l", " ", "d", "e", "p", "l", "o", "y", "m", "e", "n", "t">>

DedupTexts == {
    <<"b">>, <<"B">>, <<"a", " ", "b">>, <<"c">>, <<"a">>,
    ManualDeploymentDot, ManualDeploymentLower, ProductPlaceholder}

DedupItems ==
    {StrItem(t) : t \in DedupTexts}
    \cup {DictItem(<<Field(kPoint, <<"b", ".">>)>>),
          DictItem(<<Field(kFeature, <<"t", "h", "e", " ", "c">>), Field(kIcon, <<"x">>)>>),
          DictItem(<<>>)}

ProductNames == {<<>>, <<"X">>}

SeqsUpTo(S, n) == UNION {[1..m -> S] : m \in 0..n}

\* ------------------------------------------------------------------------
\* State
\* ------------------------------------------------------------------------
VARIABLES
    content_list,   \* the Deduplicator's input sequence
    product_name,   \* the product-name substitution value (<<>> when none)
    bullets_out,    \* result of deduplicate_bullets(content_list)
    content_out,    \* result of deduplicate_content(content_list, product_name)
    dedup_pc,       \* "idle", "input", "bullets" or "content": which call has returned
    key_s1,         \* a raw string
    key_s2,         \* a variant of key_s1
    key_edit,       \* how key_s2 differs from key_s1: "none", "glyph", "case", "stop", "punct"
    trunc_text,     \* the text given to the Truncator
    max_chars,      \* its max_chars argument (0: not given)
    max_words,      \* its max_words argument (0: not given)
    trunc_out,      \* what the first call returned
    trunc_again,    \* what the call on trunc_out's text returned
    trunc_pc,       \* "idle", "input", "once", "twice" or "ensured"
    style_in,       \* the argument of normalize_style
    style_out,      \* its result
    style_pc,       \* "idle", "input" or "done"
    bundle_keys,    \* the keys of the content bundle
    raw_persona,    \* content['metadata']['persona'], or the default when absent
    team_config,    \* the session's team configuration
    custom_slide_order, \* the custom_slide_order argument (<<>>: None or empty)
    persona,        \* the normalized persona
    slide_order,    \* the planned slide order
    plan_pc,        \* "idle", "input", "resolved" or "planned"
    content,        \* the slide records of the content bundle the builders work on
    merged_content, \* those records as the merge step left them
    build_pos,      \* position in slide_order of the entry the build loop is at
    build_log,      \* the entries the build loop has been through, with their outcomes
    build_pc,       \* "idle", "loop", "returned" or "raised"
    used_images,    \* the hashes of the images placed in the deck being built
    original_images_cache, \* the session's image store
    is_new_presentation,   \* the context's is_new_presentation flag
    image_call,     \* the last call of fetch_image_with_cache and what it did
    returned_images,\* the images the calls have returned so far
    repeated_hash,  \* some call returned bytes whose hash an earlier call had returned
    image_calls,    \* the number of calls made, -1 when the component is at rest
    merge_bundle,   \* the content bundle given to the merge step
    merge_persona,  \* the normalized persona whose defaults are merged in
    merge_out,      \* the bundle after the merge step, and how the step went
    merge_pc,       \* "idle", "input" or "merged"
    search_slide_type,  \* the slide type fetch_image_for_slide is called for
    use_placeholders,   \* its use_placeholders argument
    search_outcomes,    \* how the requests to the image search go, in order
    search_result,      \* what the call came to
    search_pc           \* "idle", "input" or "done"

dedupVars == <<content_list, product_name, bullets_out, content_out, dedup_pc>>

keyVars == <<key_s1, key_s2, key_edit>>

truncVars == <<trunc_text, max_chars, max_words, trunc_out, trunc_again, trunc_pc>>

styleVars == <<style_in, style_out, style_pc>>

planVars == <<bundle_keys, raw_persona, team_config, custom_slide_order, persona,
              slide_order, plan_pc>>

buildVars == <<content, merged_content, build_pos, build_log, build_pc>>

\* the components with a specification of their own further down
imageVars == <<used_images, original_images_cache, is_new_presentation, image_call,
               returned_images, repeated_hash, image_calls>>

mergeVars == <<merge_bundle, merge_persona, merge_out, merge_pc>>

searchVars == <<search_slide_type, use_placeholders, search_outcomes, search_result,
                search_pc>>

VARIABLES
    enrich_fn,      \* which Content Enricher is called
    enrich_text,    \* its text argument
    enrich_product, \* its product_name argument (NoName when not given)
    enrich_type,    \* its content_type argument
    enrich_out,     \* the text it returned
    enrich_pc       \* "idle", "input" or "done"

enrichVars == <<enrich_fn, enrich_text, enrich_product, enrich_type, enrich_out, enrich_pc>>

VARIABLES
    persona_table,  \* the PERSONA_CONTENT objects as they are now, per persona
    session_content,\* the caller's bundle object as the last call left it
    ppt_cache,      \* the keys of st.session_state.ppt_cache
    table_call,     \* the last create_presentation call, <<>> before the first
    table_calls     \* number of create_presentation calls so far (-1: none made here)

tableVars == <<persona_table, session_content, ppt_cache, table_call, table_calls>>

VARIABLES
    pad_style,      \* the style create_problem_slide runs with
    pad_input,      \* clean_bullets when the minimum-content loop is entered
    clean_bullets,  \* clean_bullets now
    pad_pc          \* "idle", "start", "loop" or "done"

padVars == <<pad_style, pad_input, clean_bullets, pad_pc>>

lateVars == <<enrichVars, tableVars, padVars>>

restVars == <<buildVars, imageVars, mergeVars, searchVars, lateVars>>

\* the text components
baseVars == <<dedupVars, keyVars, truncVars, styleVars>>

vars == <<dedupVars, keyVars, truncVars, styleVars, planVars, restVars>>

\* the components a specification does not exercise stay in these states
IdleDedup ==
    /\ content_list = <<>>
    /\ product_name = <<>>
    /\ bullets_out = <<>>
    /\ content_out = <<>>
    /\ dedup_pc = "idle"

IdleKey ==
    /\ key_s1 = <<>>
    /\ key_s2 = <<>>
    /\ key_edit = "idle"

IdleTrunc ==
    /\ trunc_text = <<>>
    /\ max_chars = 0
    /\ max_words = 0
    /\ trunc_out = Returned(<<>>)
    /\ trunc_again = Returned(<<>>)
    /\ trunc_pc = "idle"

IdleStyle ==
    /\ style_in = NonString
    /\ style_out = <<>>
    /\ style_pc = "idle"

IdlePlan ==
    /\ bundle_keys = {}
    /\ raw_persona = NonString
    /\ team_config = [include_team_slide |-> FALSE, team_members |-> <<>>]
    /\ custom_slide_order = <<>>
    /\ persona = <<>>
    /\ slide_order = <<>>
    /\ plan_pc = "idle"

\* a bundle without advantage, market and team records
NoRecords == [
    advantage_slide |-> [differentiators |-> Absent, bullets |-> <<>>],
    market_slide |-> [description |-> Absent],
    team_slide |-> [team_members |-> <<>>]]

IdleBuild ==
    /\ content = NoRecords
    /\ merged_content = NoRecords
    /\ build_pos = 0
    /\ build_log = <<>>
    /\ build_pc = "idle"

NoCall == [
    slide_type |-> "", image |-> NoImage, fetched |-> <<>>,
    used_before |-> {}, cache_before |-> NoStore]

IdleImage ==
    /\ used_images = {}
    /\ original_images_cache = NoStore
    /\ is_new_presentation = TRUE
    /\ image_call = NoCall
    /\ returned_images = {}
    /\ repeated_hash = FALSE
    /\ image_calls = -1

IdleMerge ==
    /\ merge_bundle = <<>>
    /\ merge_persona = business
    /\ merge_out = [raised |-> FALSE, content |-> <<>>, failed |-> {}]
    /\ merge_pc = "idle"

IdleSearch ==
    /\ search_slide_type = ""
    /\ use_placeholders = FALSE
    /\ search_outcomes = <<>>
    /\ search_result = SearchResult(FALSE, Nothing, 0)
    /\ search_pc = "idle"

IdleEnrich ==
    /\ enrich_fn = ""
    /\ enrich_text = <<>>
    /\ enrich_product = [s |-> "", n |-> 0, last |-> ""]
    /\ enrich_type = ""
    /\ enrich_out = <<>>
    /\ enrich_pc = "idle"

IdleTable ==
    /\ persona_table = <<>>
    /\ session_content = <<>>
    /\ ppt_cache = {}
    /\ table_call = <<>>
    /\ table_calls = -1

IdlePad ==
    /\ pad_style = <<>>
    /\ pad_input = <<>>
    /\ clean_bullets = <<>>
    /\ pad_pc = "idle"

IdleLate ==
    /\ IdleEnrich
    /\ IdleTable
    /\ IdlePad

IdleRest ==
    /\ IdleBuild
    /\ IdleImage
    /\ IdleMerge
    /\ IdleSearch
    /\ IdleLate

\* ------------------------------------------------------------------------
\* The Deduplicator applied to one input sequence
\* ------------------------------------------------------------------------
InitDedup ==
    /\ content_list \in SeqsUpTo(DedupItems, MaxItems)
    /\ product_name \in ProductNames
    /\ bullets_out = <<>>
    /\ content_out = <<>>
    /\ dedup_pc = "input"
    /\ IdleKey
    /\ IdleTrunc
    /\ IdleStyle
    /\ IdlePlan
    /\ IdleRest

DedupBullets ==
    /\ dedup_pc = "input"
    /\ bullets_out' = deduplicate_bullets(content_list)
    /\ dedup_pc' = "bullets"
    /\ UNCHANGED <<content_list, product_name, content_out, keyVars, truncVars, styleVars, planVars, restVars>>

DedupContent ==
    /\ dedup_pc = "input"
    /\ content_out' = deduplicate_content(content_list, product_name)
    /\ dedup_pc' = "content"
    /\ UNCHANGED <<content_list, product_name, bullets_out, keyVars, truncVars, styleVars, planVars, restVars>>

NextDedup ==
    \/ DedupBullets
    \/ DedupContent

SpecDedup == InitDedup /\ [][NextDedup]_vars

\* ------------------------------------------------------------------------
\* Deduplicator: properties
\* ------------------------------------------------------------------------
\* cleaned text and key of the i-th input, as deduplicate_bullets sees it
BulletClean(i) == clean_and_deduplicate_text(BulletText(content_list[i]))

BulletKey(i) == get_comparison_key(BulletClean(i))

\* cleaned text and key of the i-th input, as deduplicate_content sees it
ContentClean(i) == clean_and_deduplicate_text(ContentText(content_list[i]))

ContentKey(i) == get_comparison_key(ContentClean(i))

\* key of an element of deduplicate_content's result
OutKey(e) == get_comparison_key(clean_and_deduplicate_text(ContentText(e)))

SetMin(S) == CHOOSE x \in S : \A y \in S : x <= y

SetMax(S) == CHOOSE x \in S : \A y \in S : y <= x

\* the field a structured item's text is taken from: the first non-empty one
\* of "point", "feature", "text"
TextFields(item) ==
    SelectSeq(<<kPoint, kFeature, kText>>, LAMBDA k : DictGet(item, k, <<>>) # <<>>)

\* the item with that field replaced by the cleaned text
WithCleanedText(item) ==
    DictItem([i \in 1..Len(item.fields) |->
        Field(item.fields[i].k,
              IF TextFields(item) # <<>> /\ item.fields[i].k = TextFields(item)[1]
              THEN clean_and_deduplicate_text(ContentText(item))
              ELSE item.fields[i].v)])

\* C26: every structured item of deduplicate_content's result is a structured
\* input item with its text field ("point", else "feature", else "text")
\* replaced by the cleaned text and every other field as in the input.
C26_TextFieldCleaned ==
    dedup_pc = "content" =>
        \A j \in 1..Len(content_out) :
            content_out[j].isdict =>
                \E i \in 1..Len(content_list) :
                    /\ content_list[i].isdict
                    /\ content_out[j] = WithCleanedText(content_list[i])

\* C1: the list returned by deduplicate_content holds no two elements whose
\* comparison key is equal and non-empty.
C1_ContentNoSharedKey ==
    dedup_pc = "content" =>
        \A i, j \in 1..Len(content_out) :
            (i # j /\ OutKey(content_out[i]) = OutKey(content_out[j]))
                => OutKey(content_out[i]) = <<>>

\* C2: deduplicate_bullets returns exactly one string per distinct non-empty
\* key of the input, namely the longest cleaned variant of that key, the
\* earliest one on a length tie; items with an empty key contribute nothing.
C2_BulletsLongestPerKey ==
    dedup_pc = "bullets" =>
        LET idx == 1..Len(content_list)
            keys == {BulletKey(i) : i \in idx} \ {<<>>}
            best(k) ==
                LET same == {i \in idx : BulletKey(i) = k}
                    longest == SetMax({Len(BulletClean(i)) : i \in same})
                IN  BulletClean(SetMin({i \in same : Len(BulletClean(i)) = longest}))
        IN  /\ Len(bullets_out) = Cardinality(keys)
            /\ \A k \in keys :
                   Cardinality({j \in 1..Len(bullets_out) : bullets_out[j] = best(k)}) = 1

\* C2 witness: a call whose input holds a later, strictly longer duplicate of
\* an earlier item and an item with an empty key, and whose result is the
\* longer duplicate alone.
C2_Witness ==
    /\ dedup_pc = "bullets"
    /\ \E i, j \in 1..Len(content_list) :
           /\ i < j
           /\ BulletKey(i) = BulletKey(j)
           /\ BulletKey(i) # <<>>
           /\ Len(BulletClean(j)) > Len(BulletClean(i))
           /\ bullets_out = <<BulletClean(j)>>
    /\ \E i \in 1..Len(content_list) :
           BulletText(content_list[i]) # <<>> /\ BulletKey(i) = <<>>

\* a call whose input holds two different variants of one key with cleaned
\* texts of the same length: the earlier one is returned
C2_TieWitness ==
    /\ dedup_pc = "bullets"
    /\ \E i, j \in 1..Len(content_list) :
           /\ i < j
           /\ BulletKey(i) = BulletKey(j)
           /\ BulletKey(i) # <<>>
           /\ BulletClean(i) # BulletClean(j)
           /\ Len(BulletClean(j)) = Len(BulletClean(i))
           /\ bullets_out = <<BulletClean(i)>>

\* index of the first input whose key is k, for either extraction
FirstBullet(k) == SetMin({i \in 1..Len(content_list) : BulletKey(i) = k})

FirstContent(k) == SetMin({i \in 1..Len(content_list) : ContentKey(i) = k})

\* C3: both deduplicators list the surviving keys in the order of their first
\* occurrence in the input: when k1 first occurs before k2, the output element
\* for k1 precedes the output element for k2.
C3_FirstSeenOrder ==
    /\ dedup_pc = "bullets" =>
           \A a, b \in 1..Len(bullets_out) :
               FirstBullet(get_comparison_key(bullets_out[a]))
                   < FirstBullet(get_comparison_key(bullets_out[b])) => a < b
    /\ dedup_pc = "content" =>
           \A a, b \in 1..Len(content_out) :
               LET ka == OutKey(content_out[a])
                   kb == OutKey(content_out[b])
                   inputKeys == {ContentKey(i) : i \in 1..Len(content_list)}
               IN  (/\ ka \in inputKeys
                    /\ kb \in inputKeys
                    /\ FirstContent(ka) < FirstContent(kb)) => a < b

ScenarioBullets == <<StrItem(ManualDeploymentDot), StrItem(ManualDeploymentLower)>>

\* C5 as stated: for ["Manual deployment.", "manual deployment"] the
\* Deduplicator yields exactly the one bullet "Manual deployment.".
C5_ScenarioKeepsPeriod ==
    (content_list = ScenarioBullets /\ dedup_pc = "bullets")
        => bullets_out = <<ManualDeploymentDot>>

\* C5 amended: for ["Manual deployment.", "manual deployment"] the
\* Deduplicator yields exactly one bullet, the cleaned string
\* "Manual deployment" (its trailing period stripped).
C5_ScenarioCleaned ==
    /\ (content_list = ScenarioBullets /\ dedup_pc = "bullets")
           => bullets_out = <<ManualDeploymentClean>>
    /\ (content_list = ScenarioBullets /\ dedup_pc = "content")
           => content_out = <<StrItem(ManualDeploymentClean)>>

\* C5 witness: deduplicate_bullets has returned for the scenario input.
C5_Witness ==
    /\ content_list = ScenarioBullets
    /\ dedup_pc = "bullets"
    /\ Len(bullets_out) = 1

\* ------------------------------------------------------------------------
\* Comparison keys of strings that differ in one respect
\* ------------------------------------------------------------------------
KeyAlphabet == {"a", "b", "B", " ", ".", "-"}

SentencePunct == {".", ",", ";", ":", "!", "?"}

InsertAt(s, p, t) == SubSeq(s, 1, p) \o t \o SubSeq(s, p + 1, Len(s))

\* p characters into s is a place where a whole word can be added
WordBoundary(s, p) ==
    IF p = 0 \/ p = Len(s) THEN TRUE ELSE IsSpace(s[p]) \/ IsSpace(s[p + 1])

DedupKey(s) == get_comparison_key(clean_and_deduplicate_text(s))

InitKey ==
    /\ key_s1 \in SeqsUpTo(KeyAlphabet, MaxKeyLen)
    /\ key_s2 = key_s1
    /\ key_edit = "none"
    /\ IdleDedup
    /\ IdleTrunc
    /\ IdleStyle
    /\ IdlePlan
    /\ IdleRest

\* key_s2 is key_s1 with one more bullet glyph somewhere
AddGlyph ==
    /\ key_edit = "none"
    /\ \E p \in 0..Len(key_s1), g \in BulletGlyphs :
           key_s2' = InsertAt(key_s1, p, <<g>>)
    /\ key_edit' = "glyph"
    /\ UNCHANGED <<key_s1, dedupVars, truncVars, styleVars, planVars, restVars>>

\* key_s2 is key_s1 with the case of one letter changed
ChangeCase ==
    /\ key_edit = "none"
    /\ \E p \in 1..Len(key_s1) :
           /\ SwapChar(key_s1[p]) # key_s1[p]
           /\ key_s2' = [key_s1 EXCEPT ![p] = SwapChar(key_s1[p])]
    /\ key_edit' = "case"
    /\ UNCHANGED <<key_s1, dedupVars, truncVars, styleVars, planVars, restVars>>

\* key_s2 is key_s1 with one more stop-word, set off by spaces
AddStopWord ==
    /\ key_edit = "none"
    /\ \E p \in 0..Len(key_s1), w \in StopWords :
           /\ WordBoundary(key_s1, p)
           /\ key_s2' = InsertAt(key_s1, p, <<" ">> \o w \o <<" ">>)
    /\ key_edit' = "stop"
    /\ UNCHANGED <<key_s1, dedupVars, truncVars, styleVars, planVars, restVars>>

\* key_s2 is key_s1 with one more trailing punctuation mark
AddTrailingPunct ==
    /\ key_edit = "none"
    /\ \E c \in SentencePunct : key_s2' = Append(key_s1, c)
    /\ key_edit' = "punct"
    /\ UNCHANGED <<key_s1, dedupVars, truncVars, styleVars, planVars, restVars>>

NextKey ==
    \/ AddGlyph
    \/ ChangeCase
    \/ AddStopWord
    \/ AddTrailingPunct

SpecKey == InitKey /\ [][NextKey]_vars

\* C4: two strings that differ only in bullet glyphs, letter case, stop-words
\* or trailing punctuation yield the same comparison key.
C4_SameKey ==
    key_edit \in {"glyph", "case", "stop", "punct"} => DedupKey(key_s1) = DedupKey(key_s2)

\* C4 witness: two different strings with a non-empty key, one of them with
\* an upper-case letter where the other has the lower-case one.
C4_Witness ==
    /\ key_edit = "case"
    /\ key_s1 # key_s2
    /\ DedupKey(key_s1) # <<>>
    /\ \E p \in 1..Len(key_s1) : key_s1[p] \in {"b", "B"} /\ key_s1[p] # key_s2[p]

\* ------------------------------------------------------------------------
\* The Truncator applied to one text
\* ------------------------------------------------------------------------
\* the pieces a text is put together from: a letter, a space, punctuation,
\* and a word cut short as in the completion table
TruncTokens == {<<"a">>, <<" ">>, <<".">>, <<",">>, <<"!">>, <<"m", "a", "n", "u", "a">>, <<"l">>}

RECURSIVE Concat(_)
Concat(ts) == IF ts = <<>> THEN <<>> ELSE ts[1] \o Concat(Tail(ts))

TruncTexts == {Concat(ts) : ts \in SeqsUpTo(TruncTokens, MaxTokens)}

InitTrunc ==
    /\ trunc_text \in TruncTexts
    /\ max_chars \in 0..MaxCharsArg
    /\ max_words \in 0..MaxWordsArg
    /\ trunc_out = Returned(<<>>)
    /\ trunc_again = Returned(<<>>)
    /\ trunc_pc = "input"
    /\ IdleDedup
    /\ IdleKey
    /\ IdleStyle
    /\ IdlePlan
    /\ IdleRest

Truncate ==
    /\ trunc_pc = "input"
    /\ trunc_out' = truncate_text_for_slide(trunc_text, max_chars, max_words)
    /\ trunc_pc' = "once"
    /\ UNCHANGED <<trunc_text, max_chars, max_words, trunc_again, dedupVars, keyVars, styleVars, planVars, restVars>>

\* the result of the first call, truncated again with the same limits
TruncateAgain ==
    /\ trunc_pc = "once"
    /\ ~trunc_out.raised
    /\ trunc_again' = truncate_text_for_slide(trunc_out.text, max_chars, max_words)
    /\ trunc_pc' = "twice"
    /\ UNCHANGED <<trunc_text, max_chars, max_words, trunc_out, dedupVars, keyVars, styleVars, planVars, restVars>>

EnsureComplete ==
    /\ trunc_pc = "input"
    /\ trunc_out' = ensure_complete_sentences(trunc_text)
    /\ trunc_pc' = "ensured"
    /\ UNCHANGED <<trunc_text, max_chars, max_words, trunc_again, dedupVars, keyVars, styleVars, planVars, restVars>>

NextTrunc ==
    \/ Truncate
    \/ TruncateAgain
    \/ EnsureComplete

SpecTrunc == InitTrunc /\ [][NextTrunc]_vars

\* the limits in force: an argument that is not given takes its default
EffMaxChars == IF max_chars = 0 THEN DefaultMaxChars ELSE max_chars

EffMaxWords == IF max_words = 0 THEN DefaultMaxWords ELSE max_words

\* C6: the output of truncate_text_for_slide has at most max_words words and,
\* except in the forced hard-cut branch, at most max_chars characters.
C6_WithinLimits ==
    (trunc_pc = "once" /\ ~trunc_out.raised) =>
        /\ Len(Split(trunc_out.text)) <= EffMaxWords
        /\ TruncateCut(trunc_text, max_chars, max_words).branch # "hard"
               => Len(trunc_out.text) <= EffMaxChars

\* C7: truncating the result again with the same limits returns it unchanged.
C7_Idempotent ==
    trunc_pc = "twice" => trunc_again = trunc_out

\* C8: for every non-empty input ensure_complete_sentences returns, without
\* raising, a string whose last character is '.', '!' or '?'.
C8_EndsInTerminator ==
    (trunc_pc = "ensured" /\ trunc_text # <<>>) =>
        /\ ~trunc_out.raised
        /\ trunc_out.text # <<>>
        /\ trunc_out.text[Len(trunc_out.text)] \in SentenceEnd

\* the last position among the first limit characters of s that holds one
\* of chars, 0 when there is none
LastWithin(s, chars, limit) ==
    LET at == {p \in 1..Len(s) : p <= limit /\ s[p] \in chars}
    IN  IF at = {} THEN 0 ELSE CHOOSE p \in at : \A q \in at : q <= p

\* the cut in the stated order: the first max_words words; then, if that is
\* still longer than max_chars, up to and including the last sentence
\* terminator before the limit, else up to the last space before the limit,
\* else the first max_chars characters
StatedCut(text0, chars, words) ==
    LET text == Strip(text0)
        cut == IF Len(Split(text)) > words
               THEN Join(SubSeq(Split(text), 1, words), <<" ">>)
               ELSE text
        terminator == LastWithin(cut, SentenceEnd, chars)
        space == LastWithin(cut, {" "}, chars)
    IN  IF Len(cut) <= chars THEN cut
        ELSE IF terminator > 0 THEN Strip(SubSeq(cut, 1, terminator))
        ELSE IF space > 0 THEN Strip(SubSeq(cut, 1, space - 1))
        ELSE Strip(SubSeq(cut, 1, chars))

\* C19: when the text exceeds a limit, the result of truncate_text_for_slide
\* is the sentence completion of the text cut to the first max_words words
\* and then, if still longer than max_chars, cut just after the last
\* sentence terminator before the character limit, else at the last space
\* before the limit, else at exactly max_chars.
C19_CutOrder ==
    (/\ trunc_pc = "once"
     /\ trunc_text # <<>>
     /\ \/ Len(Split(Strip(trunc_text))) > EffMaxWords
        \/ Len(Strip(trunc_text)) > EffMaxChars)
        => trunc_out = ensure_complete_sentences(StatedCut(trunc_text, EffMaxChars, EffMaxWords))

\* the text ensure_complete_sentences works on, and its final word
EnsuredText == RStrip(RStrip(trunc_text, {".", " "}), {"."})

FinalWord == Lower(Split(EnsuredText)[Len(Split(EnsuredText))])

\* the first words of the completion phrases
CompleteFirstWords == {RStrip(Lower(Split(Endings[i].complete)[1]), {"."}) : i \in 1..Len(Endings)}

\* C29: a text whose final word is the complete first word of a completion
\* phrase, or starts with no prefix of the table, comes back with only a
\* trailing period added.
C29_CompleteWordKept ==
    (/\ trunc_pc = "ensured"
     /\ ~trunc_out.raised
     /\ Split(EnsuredText) # <<>>
     /\ \/ FinalWord \in CompleteFirstWords
        \/ \A i \in 1..Len(Endings) : ~StartsWith(FinalWord, Endings[i].partial)) =>
        trunc_out.text = WithPeriod(EnsuredText)

\* ------------------------------------------------------------------------
\* The Persona/Style Resolver applied to one value
\* ------------------------------------------------------------------------
StyleTokens == {
    technical, executive, business,
    <<"T", "e", "c", "h", "n", "i", "c", "a", "l">>,
    <<"E", "X", "E", "C", "U", "T", "I", "V", "E">>,
    <<"B", "u", "s", "i", "n", "e", "s", "s">>,
    <<"E", "n", "t", "e", "r", "p", "r", "i", "s", "e">>,
    <<" ">>, <<"s">>}

Enterprise == StrValue(<<"E", "n", "t", "e", "r", "p", "r", "i", "s", "e">>)

StyleInputs ==
    {NonString} \cup {StrValue(Concat(ts)) : ts \in SeqsUpTo(StyleTokens, MaxStyleTokens)}

InitStyle ==
    /\ style_in \in StyleInputs
    /\ style_out = <<>>
    /\ style_pc = "input"
    /\ IdleDedup
    /\ IdleKey
    /\ IdleTrunc
    /\ IdlePlan
    /\ IdleRest

NormalizeStyle ==
    /\ style_pc = "input"
    /\ style_out' = normalize_style(style_in)
    /\ style_pc' = "done"
    /\ UNCHANGED <<style_in, dedupVars, keyVars, truncVars, planVars, restVars>>

NextStyle == NormalizeStyle

SpecStyle == InitStyle /\ [][NextStyle]_vars

\* C9: normalize_style is total and closed: whatever the input, the result is
\* one of technical, executive, business, it is a key of PRESENTATION_STYLES
\* and of PERSONA_CONTENT, and "Enterprise" maps to business.
C9_ResolverClosed ==
    style_pc = "done" =>
        /\ style_out \in {technical, executive, business}
        /\ style_out \in PresentationStyleKeys
        /\ style_out \in PersonaContentKeys
        /\ style_in = Enterprise => style_out = business

\* C9 witness: the resolver has returned for the unrecognized name "Enterprise".
C9_Witness ==
    /\ style_pc = "done"
    /\ style_in = Enterprise
    /\ style_out = business

\* ------------------------------------------------------------------------
\* Slide order planning in create_presentation
\* ------------------------------------------------------------------------
PersonaInputs == {
    StrValue(business), NonString, Enterprise,
    StrValue(<<"T", "e", "c", "h", "n", "i", "c", "a", "l">>),
    StrValue(<<"E", "X", "E", "C", "U", "T", "I", "V", "E">>)}

TeamRosters == {
    <<>>,
    <<[name |-> "John Doe", title |-> "CEO"]>>,
    <<[name |-> "Ada Park", title |-> "Founder"]>>}

CustomOrderTypes == {"cta_slide", "title_slide"}

InitPlan ==
    /\ bundle_keys \in SUBSET SlideTypes
    /\ raw_persona \in PersonaInputs
    /\ team_config \in [include_team_slide : BOOLEAN, team_members : TeamRosters]
    /\ custom_slide_order \in SeqsUpTo(CustomOrderTypes, MaxOrderLen)
    /\ persona = <<>>
    /\ slide_order = <<>>
    /\ plan_pc = "input"
    /\ IdleDedup
    /\ IdleKey
    /\ IdleTrunc
    /\ IdleStyle
    /\ IdleRest

\* persona = normalize_style(content.get('metadata', {}).get('persona', 'business'))
ResolvePersona ==
    /\ plan_pc = "input"
    /\ persona' = normalize_style(raw_persona)
    /\ plan_pc' = "resolved"
    /\ UNCHANGED <<bundle_keys, raw_persona, team_config, custom_slide_order, slide_order,
                   dedupVars, keyVars, truncVars, styleVars, restVars>>

\* the custom order, or the default order built from the persona's groups
PlanOrder ==
    /\ plan_pc = "resolved"
    /\ slide_order' = PlanSlideOrder(bundle_keys, persona, team_config, custom_slide_order)
    /\ plan_pc' = "planned"
    /\ UNCHANGED <<bundle_keys, raw_persona, team_config, custom_slide_order, persona,
                   dedupVars, keyVars, truncVars, styleVars, restVars>>

NextPlan ==
    \/ ResolvePersona
    \/ PlanOrder

SpecPlan == InitPlan /\ [][NextPlan]_vars

\* C10 as stated: the slide order never contains a slide type that is not a
\* key of the content bundle, and cta_slide, when in the order, is last.
C10_OrderWithinBundle ==
    plan_pc = "planned" =>
        /\ \A i \in 1..Len(slide_order) : slide_order[i] \in bundle_keys
        /\ "cta_slide" \in Range(slide_order)
               => slide_order[Len(slide_order)] = "cta_slide"

\* C10 amended: without a custom order, every entry of the slide order other
\* than team_slide is a key of the content bundle, and cta_slide, when in the
\* order, is last; a custom order is taken as given.
C10_DefaultOrderWithinBundle ==
    plan_pc = "planned" =>
        IF custom_slide_order # <<>>
        THEN slide_order = custom_slide_order
        ELSE /\ \A i \in 1..Len(slide_order) :
                    slide_order[i] \in bundle_keys \cup {"team_slide"}
             /\ "cta_slide" \in Range(slide_order)
                    => slide_order[Len(slide_order)] = "cta_slide"

\* C10 witness: a default order was planned for a bundle that lacks some of
\* the persona's slides and team_slide, with the team slide and the
\* call-to-action slide appended.
C10_Witness ==
    /\ plan_pc = "planned"
    /\ custom_slide_order = <<>>
    /\ "features_slide" \notin bundle_keys
    /\ "team_slide" \notin bundle_keys
    /\ "team_slide" \in Range(slide_order)
    /\ Len(slide_order) >= 3
    /\ slide_order[Len(slide_order)] = "cta_slide"

\* the entries appended after the persona's groups
AppendedTypes == {"team_slide", "cta_slide"}

\* C24: without a custom order, the planned order is the persona's core group,
\* then its supporting group, then its optional group, each in declared order
\* and filtered to the slide types that are keys of the bundle, followed only
\* by the appended team and call-to-action entries; no slide type appears
\* twice, and title_slide, when a key of the bundle, is first.
C24_GroupsInDeclaredOrder ==
    (plan_pc = "planned" /\ custom_slide_order = <<>>) =>
        LET groups == SelectSeq(core_slides(persona) \o supporting_slides(persona)
                                    \o optional_slides(persona),
                                LAMBDA t : t \in bundle_keys)
        IN  /\ Len(slide_order) >= Len(groups)
            /\ SubSeq(slide_order, 1, Len(groups)) = groups
            /\ \A i \in (Len(groups) + 1)..Len(slide_order) : slide_order[i] \in AppendedTypes
            /\ \A i, j \in 1..Len(slide_order) : i # j => slide_order[i] # slide_order[j]
            /\ "title_slide" \in bundle_keys => slide_order[1] = "title_slide"
            /\ persona \in {technical, executive, business}

\* C24 witness: the executive order was planned for a bundle without the
\* solution slide: title, problem and market first, the roadmap slide of the
\* optional group last.
C24_Witness ==
    /\ plan_pc = "planned"
    /\ custom_slide_order = <<>>
    /\ persona = executive
    /\ "solution_slide" \notin bundle_keys
    /\ Len(slide_order) = 7
    /\ SubSeq(slide_order, 1, 4) = <<"title_slide", "problem_slide", "market_slide", "advantage_slide">>
    /\ slide_order[7] = "roadmap_slide"

\* C11: the planner appends team_slide to the default order if and only if
\* the inclusion flag is set, the roster is non-empty and some roster entry
\* has a non-generic name and title.
C11_TeamSlideIffRealRoster ==
    (plan_pc = "planned" /\ custom_slide_order = <<>>) =>
        ("team_slide" \in Range(slide_order)
            <=> /\ team_config.include_team_slide
                /\ team_config.team_members # <<>>
                /\ has_real_names(team_config.team_members))

\* ------------------------------------------------------------------------
\* The build loop of create_presentation
\* ------------------------------------------------------------------------
BuildBundles == {SlideTypes \ M : M \in {{}, {"cta_slide"}, {"title_slide"}, {"team_slide"}}}

BuildPersonas == {
    StrValue(business),
    StrValue(<<"T", "e", "c", "h", "n", "i", "c", "a", "l">>),
    StrValue(<<"E", "X", "E", "C", "U", "T", "I", "V", "E">>)}

BuildOrderTypes == {"cta_slide", "title_slide", "market_slide"}

AdvantageRecords == {
    [differentiators |-> d, bullets |-> <<"Improved team collaboration">>] :
        d \in {Absent, Present(<<"Fast">>)}}

MarketRecords == {
    [description |-> d] :
        d \in {Absent, Present(<<"a">>), Present(<<"a", ".">>), Present(<<".">>)}}

TeamRecords == {[team_members |-> r] : r \in TeamRosters}

\* the records of the slide types that are keys of the bundle
BundleRecords(keys) == [
    advantage_slide : IF "advantage_slide" \in keys
                      THEN AdvantageRecords ELSE {NoRecords.advantage_slide},
    market_slide : IF "market_slide" \in keys
                   THEN MarketRecords ELSE {NoRecords.market_slide},
    team_slide : IF "team_slide" \in keys
                 THEN TeamRecords ELSE {NoRecords.team_slide}]

InitBuild ==
    /\ bundle_keys \in BuildBundles
    /\ raw_persona \in BuildPersonas
    /\ team_config \in [include_team_slide : BOOLEAN, team_members : TeamRosters]
    /\ custom_slide_order \in SeqsUpTo(BuildOrderTypes, MaxOrderLen)
    /\ persona = <<>>
    /\ slide_order = <<>>
    /\ plan_pc = "input"
    /\ content \in BundleRecords(bundle_keys)
    /\ merged_content = content
    /\ build_pos = 1
    /\ build_log = <<>>
    /\ build_pc = "loop"
    /\ IdleDedup
    /\ IdleKey
    /\ IdleTrunc
    /\ IdleStyle
    /\ IdleImage
    /\ IdleMerge
    /\ IdleSearch
    /\ IdleLate

\* one iteration of the loop over slide_order
BuildSlide ==
    /\ plan_pc = "planned"
    /\ build_pc = "loop"
    /\ build_pos <= Len(slide_order)
    /\ LET slide_type == slide_order[build_pos]
       IN  \E outcome \in BuildOutcomes(slide_type, bundle_keys, content,
                                        team_config.include_team_slide),
              extended \in BOOLEAN :
               /\ outcome = "built" => extended
               /\ slide_type # "advantage_slide" => extended
               /\ content' = ContentAfter(slide_type, content, outcome, extended)
               /\ build_log' = Append(build_log, [type |-> slide_type, outcome |-> outcome])
               /\ build_pc' = IF outcome = "raised" THEN "raised" ELSE "loop"
               /\ build_pos' = IF outcome = "raised" THEN build_pos ELSE build_pos + 1
    /\ UNCHANGED <<merged_content, baseVars, planVars, imageVars, mergeVars, searchVars, lateVars>>

\* the loop is over: the deck is saved and returned
ReturnDeck ==
    /\ plan_pc = "planned"
    /\ build_pc = "loop"
    /\ build_pos > Len(slide_order)
    /\ build_pc' = "returned"
    /\ UNCHANGED <<content, merged_content, build_pos, build_log, baseVars, planVars, imageVars, mergeVars, searchVars, lateVars>>

NextBuild ==
    \/ ResolvePersona
    \/ PlanOrder
    \/ BuildSlide
    \/ ReturnDeck

SpecBuild == InitBuild /\ [][NextBuild]_vars

\* C12: with a non-empty custom order the build loop goes through exactly its
\* entries in the given order; an entry that is not a key of the content
\* bundle is skipped, the loop going on to the entries after it, and every
\* entry that is a key reaches its builder.
C12_CustomOrderVerbatim ==
    (plan_pc = "planned" /\ custom_slide_order # <<>>) =>
        /\ Len(build_log) <= Len(custom_slide_order)
        /\ \A i \in 1..Len(build_log) :
               /\ build_log[i].type = custom_slide_order[i]
               /\ build_log[i].outcome = "skipped" <=> custom_slide_order[i] \notin bundle_keys
               /\ build_log[i].outcome = "raised" => custom_slide_order[i] \in bundle_keys
        /\ build_pc = "returned" => Len(build_log) = Len(custom_slide_order)

\* C12 witness: the deck was returned for a custom order whose first entry is
\* not a key of the bundle and whose second entry was built.
C12_Witness ==
    /\ build_pc = "returned"
    /\ Len(custom_slide_order) = 2
    /\ custom_slide_order[1] \notin bundle_keys
    /\ build_log[1].outcome = "skipped"
    /\ build_log[2].outcome = "built"

\* ------------------------------------------------------------------------
\* The Image Cache over the image fetches of one deck build
\* ------------------------------------------------------------------------
ImageSlideTypes == {"problem", "solution"}

\* what one call of fetch_image_for_slide hands back
FetchResults == Images \cup {NoImage}

ImageStores ==
    {NoStore} \cup
    {[exists |-> TRUE, images |-> f] :
        f \in UNION {[K -> Images] : K \in SUBSET {CacheKey(t) : t \in ImageSlideTypes}}}

\* used_images = set() of create_presentation; the session store is whatever
\* earlier builds of the session left
InitImage ==
    /\ used_images = {}
    /\ original_images_cache \in ImageStores
    /\ is_new_presentation \in BOOLEAN
    /\ image_call = NoCall
    /\ returned_images = {}
    /\ repeated_hash = FALSE
    /\ image_calls = 0
    /\ IdleDedup
    /\ IdleKey
    /\ IdleTrunc
    /\ IdleStyle
    /\ IdlePlan
    /\ IdleBuild
    /\ IdleMerge
    /\ IdleSearch
    /\ IdleLate

\* a slide builder asks for its image
FetchImage ==
    /\ image_calls >= 0
    /\ image_calls < MaxCalls
    /\ \E slide_type \in ImageSlideTypes, fetches \in [1..UniqueRetries -> FetchResults] :
        LET r == fetch_image_with_cache(slide_type, is_new_presentation, used_images,
                                        original_images_cache, fetches)
        IN  /\ used_images' = r.used_images
            /\ original_images_cache' = r.cache
            /\ image_call' = [slide_type |-> slide_type, image |-> r.image,
                               fetched |-> r.fetched, used_before |-> used_images,
                               cache_before |-> original_images_cache]
            /\ returned_images' = returned_images \cup ({r.image} \ {NoImage})
            /\ repeated_hash' = (repeated_hash \/ r.image \in returned_images)
    /\ image_calls' = image_calls + 1
    /\ UNCHANGED <<is_new_presentation, baseVars, planVars, buildVars, mergeVars, searchVars, lateVars>>

NextImage == FetchImage

SpecImage == InitImage /\ [][NextImage]_vars

\* C13: in a new-presentation build no two calls return bytes with the same
\* content hash: the hash of every returned image was absent from
\* used_images before the call and is present after it.
C13_NoRepeatedImage ==
    (is_new_presentation /\ image_calls > 0) =>
        /\ ~repeated_hash
        /\ image_call.image # NoImage =>
               /\ ImageHash(image_call.image) \notin image_call.used_before
               /\ ImageHash(image_call.image) \in used_images

\* C13 witness: a call went to the network because the cached image was
\* already used, met a used image first and returned a different, unused one.
C13_Witness ==
    /\ is_new_presentation
    /\ image_calls > 1
    /\ image_call.image # NoImage
    /\ Len(image_call.fetched) = 2
    /\ ImageHash(image_call.fetched[1]) \in image_call.used_before
    /\ Cached(image_call.cache_before, image_call.slide_type) \notin {NoImage, image_call.image}

\* C20: when a cached image exists for the slide type, fetch_image_with_cache
\* returns the cached bytes and adds their hash to used_images if the hash
\* was not in it; returns the cached bytes and leaves used_images unchanged
\* if the hash was in it and the call is not a new-presentation call; and
\* otherwise attempts a fresh fetch and does not return the cached bytes.
C20_CachedBranches ==
    image_calls > 0 =>
        LET cached_data == Cached(image_call.cache_before, image_call.slide_type)
        IN  cached_data # NoImage =>
                IF ImageHash(cached_data) \notin image_call.used_before
                THEN /\ image_call.image = cached_data
                     /\ used_images = image_call.used_before \cup {ImageHash(cached_data)}
                     /\ image_call.fetched = <<>>
                ELSE IF ~is_new_presentation
                THEN /\ image_call.image = cached_data
                     /\ used_images = image_call.used_before
                     /\ image_call.fetched = <<>>
                ELSE /\ Len(image_call.fetched) >= 1
                     /\ image_call.image # cached_data

\* C20 witness: outside a new-presentation build a call returned the cached
\* bytes although their hash was already in used_images.
C20_Witness ==
    /\ ~is_new_presentation
    /\ image_calls > 1
    /\ image_call.image # NoImage
    /\ ImageHash(image_call.image) \in image_call.used_before
    /\ image_call.image = Cached(image_call.cache_before, image_call.slide_type)
    /\ used_images = image_call.used_before

C22_FetchCached ==
    (/\ is_new_presentation
     /\ image_calls > 0
     /\ image_call.fetched # <<>>
     /\ image_call.image # NoImage) =>
        Cached(original_images_cache, image_call.slide_type) = image_call.image

\* C23: a call that is not a new-presentation call makes no fetch and leaves
\* the session store as it was; it returns the cached bytes of the slide
\* type, and no image when there are none.
C23_NotNewNoFetch ==
    (~is_new_presentation /\ image_calls > 0) =>
        /\ image_call.fetched = <<>>
        /\ original_images_cache = image_call.cache_before
        /\ image_call.image = Cached(image_call.cache_before, image_call.slide_type)

\* C23 witness: outside a new-presentation build one call returned the cached
\* bytes of its slide type and the next, for a slide type without cached
\* bytes, returned no image.
C23_Witness ==
    /\ ~is_new_presentation
    /\ image_calls > 1
    /\ returned_images # {}
    /\ Cached(image_call.cache_before, image_call.slide_type) = NoImage
    /\ image_call.image = NoImage
    /\ image_call.cache_before.exists

\* ------------------------------------------------------------------------
\* The merge step of create_presentation applied to one bundle
\* ------------------------------------------------------------------------
\* a dict entry that may be missing
OptField(key, o) == IF o.present THEN <<Field(key, o.value)>> ELSE <<>>

UserTitles == {Absent, Present(StrV("")), Present(StrV("Mine")), Present(NoneV)}

UserBullets == {
    Absent,
    Present(ListV(<<>>)),
    Present(ListV(<<Hashable("x"), Hashable("Limited scalability for growth"), Hashable("x")>>)),
    Present(ListV(<<Hashable("x"), Unhashable>>)),
    Present(StrV("text"))}

UserNotes == {Absent, Present(StrV("mine only"))}

UserProblemSlides ==
    {NotMapping} \cup
    {Mapping(OptField("title", t) \o OptField("bullets", b) \o OptField("note", n)) :
        t \in UserTitles, b \in UserBullets, n \in UserNotes}

UserCtaSlides == {NotMapping} \cup {Mapping(OptField("title", t)) : t \in {Absent, Present(StrV("Mine"))}}

UserMarketSlides == {Mapping(<<Field("description", StrV("d"))>>)}

\* a slide type of the bundle that may be missing
OptSlides(slide_type, values) ==
    {<<>>} \cup {<<Field(slide_type, v)>> : v \in values}

MergeBundles ==
    {p \o c \o m :
        p \in OptSlides("problem_slide", UserProblemSlides),
        c \in OptSlides("cta_slide", UserCtaSlides),
        m \in OptSlides("market_slide", UserMarketSlides)}

InitMerge ==
    /\ merge_bundle \in MergeBundles
    /\ merge_persona \in {technical, executive, business}
    /\ merge_out = [raised |-> FALSE, content |-> <<>>, failed |-> {}]
    /\ merge_pc = "input"
    /\ IdleDedup
    /\ IdleKey
    /\ IdleTrunc
    /\ IdleStyle
    /\ IdlePlan
    /\ IdleBuild
    /\ IdleImage
    /\ IdleSearch
    /\ IdleLate

Merge ==
    /\ merge_pc = "input"
    /\ merge_out' = MergeContent(merge_bundle, merge_persona)
    /\ merge_pc' = "merged"
    /\ UNCHANGED <<merge_bundle, merge_persona, baseVars, planVars, buildVars, imageVars, searchVars, lateVars>>

NextMerge == Merge

SpecMerge == InitMerge /\ [][NextMerge]_vars

Keys(d) == {d[i].k : i \in 1..Len(d)}

\* the first position of x in xs
FirstIndex(xs, x) == CHOOSE i \in 1..Len(xs) : xs[i] = x /\ \A j \in 1..(i - 1) : xs[j] # x

\* r is xs with exact duplicates removed, in first-seen order
IsFirstSeenDedup(r, xs) ==
    /\ Range(r) = Range(xs)
    /\ \A i, j \in 1..Len(r) :
           i < j => r[i] # r[j] /\ FirstIndex(xs, r[i]) < FirstIndex(xs, r[j])

\* the slide types the merge step looks at
MergedTypes == Keys(merge_bundle) \cap Keys(PERSONA_CONTENT(merge_persona))

\* the fields the merge rule gives slide type t: every field of the default
\* holds the default value if it was absent or falsy in the user content,
\* the user-then-default concatenation without exact duplicates in
\* first-seen order if both values are lists, and the user value otherwise;
\* the fields only the user content has are unchanged
MergedPerField(t) ==
    LET u == Lookup(merge_bundle, t).fields
        d == Lookup(PERSONA_CONTENT(merge_persona), t).fields
        o == Lookup(merge_out.content, t)
    IN  /\ o.mapping
        /\ Keys(o.fields) = Keys(u) \cup Keys(d)
        /\ \A k \in Keys(d) :
               IF k \notin Keys(u) \/ ~Truthy(Lookup(u, k))
               THEN Lookup(o.fields, k) = Lookup(d, k)
               ELSE IF Lookup(d, k).kind = "list" /\ Lookup(u, k).kind = "list"
               THEN /\ Lookup(o.fields, k).kind = "list"
                    /\ IsFirstSeenDedup(Lookup(o.fields, k).items,
                                        Lookup(u, k).items \o Lookup(d, k).items)
               ELSE Lookup(o.fields, k) = Lookup(u, k)
        /\ \A k \in Keys(u) \ Keys(d) : Lookup(o.fields, k) = Lookup(u, k)

\* C14: for every slide type in both the bundle and the persona defaults
\* whose merge did not fail, the merged record follows the per-field rule:
\* default for an absent or falsy field, deduplicated user-then-default
\* concatenation for two lists, the user value otherwise, and the user's own
\* fields unchanged.
C14_MergePerField ==
    merge_pc = "merged" =>
        \A t \in MergedTypes \ merge_out.failed : MergedPerField(t)

\* C14 witness: the business defaults were merged into a problem slide with
\* an empty title, a list of bullets with duplicates and a field of its own.
C14_Witness ==
    /\ merge_pc = "merged"
    /\ merge_persona = business
    /\ "problem_slide" \in MergedTypes \ merge_out.failed
    /\ LET u == Lookup(merge_bundle, "problem_slide").fields
           o == Lookup(merge_out.content, "problem_slide").fields
       IN  /\ Keys(u) = {"title", "bullets", "note"}
           /\ Lookup(u, "title") = StrV("")
           /\ Len(Lookup(u, "bullets").items) = 3
           /\ Len(Lookup(o, "bullets").items) = 7
           /\ Lookup(o, "title") = StrV("Business Operations Challenges")

\* the merge of slide type t has to fail: its content is not a mapping, or a
\* non-empty list of it that meets a list of the defaults holds an element
\* that cannot be hashed
MustFail(t) ==
    LET user == Lookup(merge_bundle, t)
        d == Lookup(PERSONA_CONTENT(merge_persona), t).fields
    IN  \/ ~user.mapping
        \/ \E k \in Keys(d) \cap Keys(user.fields) :
               /\ Lookup(d, k).kind = "list"
               /\ Lookup(user.fields, k).kind = "list"
               /\ \E j \in 1..Len(Lookup(user.fields, k).items) :
                      ~Lookup(user.fields, k).items[j].hashable

\* C15: a failure while merging one slide type does not abort the merge
\* step: the step returns, the failed slide type's content is the persona
\* default for it, and every other slide type is merged by the per-field
\* rule (or left as it was when the defaults do not have it).
C15_FailureContained ==
    merge_pc = "merged" =>
        /\ ~merge_out.raised
        /\ Keys(merge_out.content) = Keys(merge_bundle)
        /\ merge_out.failed = {t \in MergedTypes : MustFail(t)}
        /\ \A t \in merge_out.failed :
               /\ Lookup(merge_out.content, t) = Lookup(PERSONA_CONTENT(merge_persona), t)
               /\ \A other \in MergedTypes \ merge_out.failed : MergedPerField(other)
               /\ \A other \in Keys(merge_bundle) \ MergedTypes :
                      Lookup(merge_out.content, other) = Lookup(merge_bundle, other)

\* C15 witness: the merge of the problem slide failed on a list with an
\* element that cannot be hashed, and the call-to-action slide after it kept
\* its own title and took the other fields from the defaults.
C15_Witness ==
    /\ merge_pc = "merged"
    /\ merge_out.failed = {"problem_slide"}
    /\ Lookup(merge_bundle, "problem_slide").mapping
    /\ "cta_slide" \in Keys(merge_bundle)
    /\ "market_slide" \in Keys(merge_bundle)
    /\ Lookup(merge_bundle, "cta_slide").mapping
    /\ LET o == Lookup(merge_out.content, "cta_slide").fields
       IN  /\ Keys(o) = {"title", "cta_text", "contact_info"}
           /\ Lookup(o, "title") = StrV("Mine")

\* the slide types with a specialized builder
SpecializedTypes == SlideTypes \ {"title_slide"}

\* C16: a failure while building a specialized slide is caught for that
\* slide alone and leaves a fallback slide in its place: no such failure
\* leaves the build loop or drops the slide, and the builds that end do so
\* by returning the deck.
C16_BuildFailureContained ==
    /\ \A i \in 1..Len(build_log) :
           build_log[i].type \in SpecializedTypes
               => build_log[i].outcome \notin {"raised", "dropped"}
    /\ (build_pc = "raised" => build_log[Len(build_log)].type \notin SpecializedTypes)

\* C18: the slide builders leave every slide record, the lists it holds and
\* its description included, equal to its value after the merge.
C18_BuildersReadOnly ==
    build_pc # "idle" => content = merged_content

\* ------------------------------------------------------------------------
\* fetch_image_for_slide against an image search that can fail
\* ------------------------------------------------------------------------
InitSearch ==
    /\ search_slide_type \in ImageSlideTypes
    /\ use_placeholders \in BOOLEAN
    /\ search_outcomes \in [1..max_retries -> SearchOutcomes]
    /\ search_result = SearchResult(FALSE, Nothing, 0)
    /\ search_pc = "input"
    /\ IdleDedup
    /\ IdleKey
    /\ IdleTrunc
    /\ IdleStyle
    /\ IdlePlan
    /\ IdleBuild
    /\ IdleImage
    /\ IdleMerge
    /\ IdleLate

FetchForSlide ==
    /\ search_pc = "input"
    /\ search_result' = fetch_image_for_slide(search_slide_type, use_placeholders,
                                              search_outcomes)
    /\ search_pc' = "done"
    /\ UNCHANGED <<search_slide_type, use_placeholders, search_outcomes,
                   baseVars, planVars, buildVars, imageVars, mergeVars, lateVars>>

NextSearch == FetchForSlide

SpecSearch == InitSearch /\ [][NextSearch]_vars

\* the requests that come back with an image
ImageAttempts == {i \in 1..Len(search_outcomes) : search_outcomes[i] \notin SearchFailures}

\* C17: whatever the outcomes of the image search, fetch_image_for_slide
\* does not raise and does not return None; it makes at most 3 requests,
\* returns the image of the first request that yields one, and returns the
\* placeholder image when none does.
C17_SearchFailureContained ==
    search_pc = "done" =>
        /\ ~search_result.raised
        /\ search_result.image # Nothing
        /\ search_result.attempts <= 3
        /\ ~use_placeholders =>
               IF ImageAttempts # {}
               THEN LET first == CHOOSE i \in ImageAttempts : \A j \in ImageAttempts : i <= j
                    IN  /\ search_result.image = search_outcomes[first]
                        /\ search_result.attempts = first
               ELSE /\ search_result.image = PlaceholderImage(search_slide_type)
                    /\ search_result.attempts = 3

\* C17 witness: every request failed, in different ways, and the call
\* returned the placeholder image.
C17_Witness ==
    /\ search_pc = "done"
    /\ ~use_placeholders
    /\ search_outcomes = <<SearchFailure("no_key"), SearchFailure("exception"),
                            SearchFailure("empty")>>
    /\ search_result.image = PlaceholderImage(search_slide_type)

\* ------------------------------------------------------------------------
\* Content Enrichers.  A text is a sequence of pieces: a piece is one
\* character, a run of characters without blanks, the product-name
\* placeholder, a product name or a boilerplate sentence, with its length in
\* characters and its last character.
\* ------------------------------------------------------------------------
Piece(s, n, last) == [s |-> s, n |-> n, last |-> last]

Ch(c) == Piece(c, 1, c)

Sentence(s, n) == Piece(s, n, ".")

Placeholder == Piece("[Product Name]", 14, "]")

NoName == Piece("", 0, "")

\* len(text)
RECURSIVE TextLen(_)
TextLen(text) ==
    IF text = <<>> THEN 0 ELSE text[1].n + TextLen(Tail(text))

\* text.strip() on a sequence of pieces
StripText(text) == RStrip(LStrip(text, {Ch(" ")}), {Ch(" ")})

\* text.replace("[Product Name]", product_name)
ReplacePlaceholder(text, name) ==
    [i \in 1..Len(text) |-> IF text[i] = Placeholder THEN name ELSE text[i]]

\* text.endswith('.')
EndsWithPeriod(text) == text # <<>> /\ text[Len(text)].last = "."

advantage_expansions ==
    <<Sentence("This provides a clear competitive edge in the market.", 53),
      Sentence("Our solution outperforms traditional approaches significantly.", 62),
      Sentence("Customers report substantial improvements in key metrics.", 57),
      Sentence("Implementation time and complexity are reduced by up to 60%.", 60),
      Sentence("The return on investment is typically realized within 6 months.", 63),
      Sentence("Our approach has been validated by industry experts and analysts.", 65),
      Sentence("Integration capabilities exceed industry standards.", 51),
      Sentence("Customer satisfaction scores consistently exceed 90%.", 53)>>

audience_expansions ==
    <<Sentence("These organizations face increasing pressure to modernize their operations.", 75),
      Sentence("Decision-makers in this segment prioritize efficiency and reliability.", 70),
      Sentence("The need for comprehensive solutions continues to grow.", 55),
      Sentence("Budget constraints and resource limitations drive demand for efficient solutions.", 81),
      Sentence("Regulatory compliance requirements add complexity to their operations.", 70),
      Sentence("They seek partners who understand their unique challenges.", 58),
      Sentence("Time-to-value is a critical factor in their decision-making process.", 68),
      Sentence("Integration with existing systems is a key consideration.", 57)>>

market_expansions ==
    <<Sentence("Market growth is driven by increasing digital transformation initiatives.", 73),
      Sentence("Industry analysts project significant expansion in coming years.", 64),
      Sentence("Regulatory requirements continue to drive market demand.", 56),
      Sentence("Technology adoption rates show strong upward trends.", 52),
      Sentence("Organizations are increasing their investment in this sector.", 61),
      Sentence("Market penetration opportunities remain substantial.", 52),
      Sentence("Competitive dynamics favor innovative solutions.", 48),
      Sentence("Global market conditions support continued growth.", 50)>>

cta_expansions ==
    <<Sentence("Take the first step toward transforming your security posture.", 62),
      Sentence("Join industry leaders who have already embraced this solution.", 62),
      Sentence("Schedule a personalized demo to see the benefits firsthand.", 59),
      Sentence("Our team of experts is ready to guide your implementation.", 58),
      Sentence("Start your journey to enhanced security today.", 46),
      Sentence("Limited-time implementation support available.", 46),
      Sentence("Join our growing community of satisfied customers.", 50),
      Sentence("Experience the difference our solution can make.", 48)>>

\* expansions.get(content_type, expansions["solution"])["additions"]
additions(content_type) ==
    CASE content_type = "problem" ->
            <<Sentence("This poses significant risks to business operations and data security.", 70),
              Sentence("Organizations must address this challenge proactively to maintain compliance.", 77),
              Sentence("The impact on overall security posture is substantial and growing.", 66),
              Sentence("Traditional approaches have proven insufficient in today's threat landscape.", 76)>>
      [] content_type = "feature" ->
            <<Sentence("This capability enhances operational efficiency while reducing complexity.", 74),
              Sentence("Users benefit from streamlined workflows and improved productivity.", 67),
              Sentence("Integration capabilities maximize value across the security ecosystem.", 70),
              Sentence("Regular updates ensure continued effectiveness against emerging threats.", 72)>>
      [] content_type = "market" ->
            <<Sentence("Market trends indicate strong growth potential in the security sector.", 70),
              Sentence("Industry adoption continues to accelerate as threats evolve.", 60),
              Sentence("Regulatory requirements drive increased demand for comprehensive solutions.", 75),
              Sentence("Digital transformation initiatives fuel expansion across all verticals.", 71)>>
      [] OTHER ->
            <<Sentence("Our solution delivers comprehensive protection across the entire attack surface.", 80),
              Sentence("The platform integrates seamlessly with existing security infrastructure.", 73),
              Sentence("Advanced analytics provide real-time insights and actionable intelligence.", 74),
              Sentence("Automated responses minimize manual intervention and reduce response times.", 75)>>


ExpandThreshold == 200

CtaThreshold == 100

IntelligentThreshold == 400

\* the for loop over the candidate list, from candidate i on
RECURSIVE ExpandLoop(_, _, _, _)
ExpandLoop(clean_text, expansions, i, threshold) ==
    IF i > Len(expansions) \/ TextLen(clean_text) >= threshold
    THEN clean_text
    ELSE LET ended == IF EndsWithPeriod(clean_text) THEN clean_text
                      ELSE Append(clean_text, Ch("."))
         IN  ExpandLoop(ended \o <<Ch(" "), expansions[i]>>, expansions, i + 1, threshold)

RECURSIVE ExpandLoop_NoBreak(_, _, _, _)
ExpandLoop_NoBreak(clean_text, expansions, i, threshold) ==
    IF i > Len(expansions)
    THEN clean_text
    ELSE LET ended == IF EndsWithPeriod(clean_text) THEN clean_text
                      ELSE Append(clean_text, Ch("."))
         IN  ExpandLoop_NoBreak(ended \o <<Ch(" "), expansions[i]>>, expansions, i + 1,
                                threshold)

Expand_NoBreak(clean_text, expansions, threshold) ==
    IF TextLen(clean_text) < threshold
    THEN ExpandLoop_NoBreak(clean_text, expansions, 1, threshold)
    ELSE clean_text

\* "if len(clean_text) < threshold: for expansion in expansions: ..."
Expand(clean_text, expansions, threshold) ==
    IF TextLen(clean_text) < threshold
    THEN ExpandLoop(clean_text, expansions, 1, threshold)
    ELSE clean_text

\* clean_text = text.strip(), then the product-name substitution
CleanText(text, name) ==
    IF name # NoName THEN ReplacePlaceholder(StripText(text), name) ELSE StripText(text)

expand_advantage_content(text, name) ==
    Expand(CleanText(text, name), advantage_expansions, ExpandThreshold)

expand_audience_content(text, name) ==
    Expand(CleanText(text, name), audience_expansions, ExpandThreshold)

expand_market_content(text) ==
    Expand(StripText(text), market_expansions, ExpandThreshold)

expand_cta_content(text, content_type) ==
    Expand(StripText(text), cta_expansions, CtaThreshold)

expand_content_intelligently(text, content_type) ==
    IF text = <<>> THEN text
    ELSE Expand(StripText(text), additions(content_type), IntelligentThreshold)

\* ------------------------------------------------------------------------
\* one Content Enricher call on one text
\* ------------------------------------------------------------------------
MaxPad == 1

Enrichers == {"expand_advantage_content", "expand_audience_content",
              "expand_market_content", "expand_cta_content",
              "expand_content_intelligently"}

Thresholds == {ExpandThreshold, CtaThreshold, IntelligentThreshold}

EnrichProductNames == {NoName, Piece("Acme", 4, "e")}

\* the content_type values a caller can pass to each enricher
ContentTypes(fn) ==
    CASE fn = "expand_content_intelligently" ->
            {"problem", "solution", "feature", "market", "other"}
      [] fn = "expand_cta_content" -> {"cta"}
      [] OTHER -> {""}

Rep(piece, n) == [i \in 1..n |-> piece]

\* a run of n characters other than blanks and periods
Body(n) == IF n = 0 THEN <<>> ELSE <<Piece("body", n, "x")>>

BodyLens == {0, 1, 40} \cup {t - d : t \in Thresholds, d \in {0, 1, 2, 14}}

\* surrounding blanks, an optional placeholder, a body, an optional period
EnrichTexts ==
    {Rep(Ch(" "), lead) \o head \o Body(n) \o dot \o Rep(Ch(" "), trail) :
        lead \in 0..MaxPad, trail \in 0..MaxPad, n \in BodyLens,
        head \in {<<>>, <<Placeholder>>}, dot \in {<<>>, <<Ch(".")>>}}

InitEnrich ==
    /\ enrich_fn \in Enrichers
    /\ enrich_text \in EnrichTexts
    /\ enrich_product \in EnrichProductNames
    /\ enrich_type \in ContentTypes(enrich_fn)
    /\ enrich_out = <<>>
    /\ enrich_pc = "input"
    /\ IdleDedup
    /\ IdleKey
    /\ IdleTrunc
    /\ IdleStyle
    /\ IdlePlan
    /\ IdleBuild
    /\ IdleImage
    /\ IdleMerge
    /\ IdleSearch
    /\ IdleTable
    /\ IdlePad

Enrich ==
    /\ enrich_pc = "input"
    /\ enrich_out' =
           CASE enrich_fn = "expand_advantage_content" ->
                    expand_advantage_content(enrich_text, enrich_product)
             [] enrich_fn = "expand_audience_content" ->
                    expand_audience_content(enrich_text, enrich_product)
             [] enrich_fn = "expand_market_content" ->
                    expand_market_content(enrich_text)
             [] enrich_fn = "expand_cta_content" ->
                    expand_cta_content(enrich_text, enrich_type)
             [] OTHER -> expand_content_intelligently(enrich_text, enrich_type)
    /\ enrich_pc' = "done"
    /\ UNCHANGED <<enrich_fn, enrich_text, enrich_product, enrich_type,
                   baseVars, planVars, buildVars, imageVars, mergeVars, searchVars,
                   tableVars, padVars>>

NextEnrich == Enrich

SpecEnrich == InitEnrich /\ [][NextEnrich]_vars

\* the threshold and the candidate list of the enricher that was called
CalledThreshold ==
    CASE enrich_fn = "expand_cta_content" -> CtaThreshold
      [] enrich_fn = "expand_content_intelligently" -> IntelligentThreshold
      [] OTHER -> ExpandThreshold

CalledCandidates ==
    CASE enrich_fn = "expand_advantage_content" -> advantage_expansions
      [] enrich_fn = "expand_audience_content" -> audience_expansions
      [] enrich_fn = "expand_market_content" -> market_expansions
      [] enrich_fn = "expand_cta_content" -> cta_expansions
      [] OTHER -> additions(enrich_type)

\* the text the enricher measures: stripped, product name substituted
MeasuredText ==
    IF enrich_fn \in {"expand_advantage_content", "expand_audience_content"}
    THEN CleanText(enrich_text, enrich_product)
    ELSE StripText(enrich_text)

\* the boilerplate sentences of the returned text
Boilerplate == SelectSeq(enrich_out, LAMBDA p : p \in Range(CalledCandidates))

\* the returned text is start, at most one added period, then k candidates in
\* list order, each after one blank, the last one added below the threshold
AppendedInOrder(start, k) ==
    /\ k <= Len(CalledCandidates)
    /\ Boilerplate = SubSeq(CalledCandidates, 1, k)
    /\ Len(enrich_out) >= Len(start)
    /\ SubSeq(enrich_out, 1, Len(start)) = start
    /\ Len(enrich_out) - Len(start) \in {2 * k, 2 * k + 1}
    /\ k >= 2 => TextLen(enrich_out) - CalledCandidates[k].n - 1 < CalledThreshold

\* C25 as stated: a text of threshold length or more gets no boilerplate, a
\* shorter one gets candidates in list order until the threshold is reached
\* or the list ends.
C25_StopsAtThreshold ==
    enrich_pc = "done" =>
        LET k == Len(Boilerplate)
        IN  IF TextLen(enrich_text) >= CalledThreshold
            THEN k = 0
            ELSE /\ k >= 1
                 /\ AppendedInOrder(MeasuredText, k)
                 /\ TextLen(enrich_out) >= CalledThreshold \/ k = Len(CalledCandidates)

\* C25 amended: the length that counts is the one of the stripped text after
\* the product-name substitution, and the intelligent variant returns an
\* empty text as it is; every call returns, with at most the whole candidate
\* list appended.
C25_StopsAtThreshold_Amended ==
    enrich_pc = "done" =>
        LET k == Len(Boilerplate)
        IN  /\ AppendedInOrder(MeasuredText, k)
            /\ IF \/ TextLen(MeasuredText) >= CalledThreshold
                  \/ enrich_fn = "expand_content_intelligently" /\ enrich_text = <<>>
               THEN enrich_out = MeasuredText
               ELSE /\ k >= 1
                    /\ TextLen(enrich_out) >= CalledThreshold \/ k = Len(CalledCandidates)

\* C25 witness: the intelligent variant ran out of candidates below its
\* threshold.
C25_Witness ==
    /\ enrich_pc = "done"
    /\ enrich_fn = "expand_content_intelligently"
    /\ enrich_text # <<>>
    /\ Boilerplate = additions(enrich_type)
    /\ TextLen(enrich_out) < IntelligentThreshold

\* ------------------------------------------------------------------------
\* The PERSONA_CONTENT objects over a session of create_presentation calls.
\* The merge stores the default's own value under a field the user record
\* lacks (or holds empty), and the default record itself when the merge
\* fails; create_advantage_slide then extends the list it reads in place.
\* ------------------------------------------------------------------------
MaxCreateCalls == 2

UserAdvantageLists == {
    Absent,
    Present(ListV(<<>>)),
    Present(ListV(<<Hashable("x")>>)),
    Present(ListV(<<Unhashable>>)),
    Present(StrV("text"))}

UserAdvantageSlides ==
    {NotMapping} \cup
    {Mapping(OptField("title", t) \o OptField("differentiators", d) \o OptField("bullets", b)) :
        t \in {Absent, Present(StrV("Mine"))},
        d \in {Absent, Present(ListV(<<Hashable("x")>>))},
        b \in UserAdvantageLists}

\* the field create_advantage_slide reads its bullets from
AdvantageListKeys(fields) ==
    SelectSeq(<<"differentiators", "bullets", "advantages">>, LAMBDA k : HasKey(fields, k))

\* the value under that field is the default's own object: the whole record
\* is the default's, or the merge stored the default's value
SharesDefault(user, default, failed, key) ==
    \/ failed
    \/ /\ HasKey(default.fields, key)
       /\ ~HasKey(user.fields, key) \/ ~Truthy(Lookup(user.fields, key))

Extended(fields, key) ==
    Put(fields, key,
        ListV(Lookup(fields, key).items
              \o [i \in 1..Len(additional_advantages) |-> Hashable(additional_advantages[i])]))

\* hashlib.md5(json.dumps(cache_input, sort_keys=True)): the dump does not
\* depend on the insertion order of the keys
SortedDump(bundle) ==
    {Field(bundle[i].k,
           [mapping |-> bundle[i].v.mapping, fields |-> Range(bundle[i].v.fields)]) :
        i \in 1..Len(bundle)}

DeckKey(bundle, p, planned) == <<"md5", SortedDump(bundle), p, planned>>

\* A call that misses the cache: the merge, then create_advantage_slide when
\* the slide is in the order; fails tells that a builder raises after the
\* list was extended.  Gives the bundle object and PERSONA_CONTENT[persona]
\* after the call, and whether the call raised.
BuildDeck(persona_content, bundle, planned, fails) ==
    LET m == MergeLoop(bundle, persona_content, 1, {})
        untouched == [content |-> m.content, table |-> persona_content, raised |-> FALSE]
    IN  IF ~planned \/ ~HasKey(bundle, "advantage_slide") THEN untouched
        ELSE LET user == Lookup(bundle, "advantage_slide")
                 default == Lookup(persona_content, "advantage_slide")
                 record == Lookup(m.content, "advantage_slide")
                 keys == AdvantageListKeys(record.fields)
             IN  IF keys = <<>> THEN [untouched EXCEPT !.raised = fails]
                 ELSE IF Lookup(record.fields, keys[1]).kind # "list"
                 THEN [untouched EXCEPT !.raised = TRUE]
                 ELSE [content |-> Put(m.content, "advantage_slide",
                                       Mapping(Extended(record.fields, keys[1]))),
                       table |-> IF SharesDefault(user, default,
                                                  "advantage_slide" \in m.failed, keys[1])
                                 THEN Put(persona_content, "advantage_slide",
                                          Mapping(Extended(default.fields, keys[1])))
                                 ELSE persona_content,
                       raised |-> fails]

SessionBundles == OptSlides("advantage_slide", UserAdvantageSlides)

InitTable ==
    /\ persona_table = [p \in PresentationStyleKeys |-> PERSONA_CONTENT(p)]
    /\ session_content = <<>>
    /\ ppt_cache = {}
    /\ table_call = <<>>
    /\ table_calls = 0
    /\ IdleDedup
    /\ IdleKey
    /\ IdleTrunc
    /\ IdleStyle
    /\ IdlePlan
    /\ IdleBuild
    /\ IdleImage
    /\ IdleMerge
    /\ IdleSearch
    /\ IdleEnrich
    /\ IdlePad

\* create_presentation(bundle, ...) for persona p: the cache lookup, and on a
\* miss the build and the cache store
Call(bundle, p, planned, fails, again) ==
    LET cache_key == DeckKey(bundle, p, planned)
        hit == cache_key \in ppt_cache
        built == BuildDeck(persona_table[p], bundle, planned, fails)
    IN  /\ persona_table' = IF hit THEN persona_table
                            ELSE [persona_table EXCEPT ![p] = built.table]
        /\ session_content' = IF hit THEN bundle ELSE built.content
        /\ ppt_cache' = IF hit \/ built.raised THEN ppt_cache
                        ELSE ppt_cache \cup {cache_key}
        /\ table_call' = <<[persona |-> p, planned |-> planned, again |-> again,
                            hit |-> hit, stored |-> ~hit /\ ~built.raised,
                            after_stored |-> again /\ table_call[1].stored,
                            given |-> bundle]>>

\* a call with a bundle the caller built for it
CreatePresentation ==
    /\ table_calls >= 0
    /\ table_calls < MaxCreateCalls
    /\ \E p \in PresentationStyleKeys, bundle \in SessionBundles,
          planned \in BOOLEAN, fails \in BOOLEAN :
          Call(bundle, p, planned, fails, FALSE)
    /\ table_calls' = table_calls + 1
    /\ UNCHANGED <<baseVars, planVars, buildVars, imageVars, mergeVars, searchVars,
                   enrichVars, padVars>>

\* the same call again: the same bundle object, untouched by the caller, the
\* same order and configuration
Regenerate ==
    /\ table_calls >= 1
    /\ table_calls < MaxCreateCalls
    /\ \E fails \in BOOLEAN :
          Call(session_content, table_call[1].persona, table_call[1].planned, fails, TRUE)
    /\ table_calls' = table_calls + 1
    /\ UNCHANGED <<baseVars, planVars, buildVars, imageVars, mergeVars, searchVars,
                   enrichVars, padVars>>

NextTable ==
    \/ CreatePresentation
    \/ Regenerate

SpecTable == InitTable /\ [][NextTable]_vars

\* C30: a second call with the same bundle object and configuration, made
\* after a call that stored its deck, finds that deck in the cache.
C30_RegenerateHits ==
    (table_calls >= 1 /\ table_call[1].after_stored) => table_call[1].hit

\* C27: after any sequence of create_presentation calls every entry of
\* PERSONA_CONTENT equals its initial value.
C27_TableFixed ==
    table_calls >= 0 =>
        \A p \in PresentationStyleKeys : persona_table[p] = PERSONA_CONTENT(p)

\* ------------------------------------------------------------------------
\* The minimum-content loop of create_problem_slide
\* ------------------------------------------------------------------------
\* word in text
Contains(text, word) ==
    \E i \in 1..(Len(text) - Len(word) + 1) : SubSeq(text, i, i + Len(word) - 1) = word

MarketWords == {
    <<"m", "a", "r", "k", "e", "t">>,
    <<"g", "r", "o", "w", "t", "h">>,
    <<"o", "p", "p", "o", "r", "t", "u", "n", "i", "t", "y">>,
    <<"s", "i", "z", "e">>}

SolutionWords == {
    <<"s", "o", "l", "u", "t", "i", "o", "n">>,
    <<"f", "e", "a", "t", "u", "r", "e">>,
    <<"p", "l", "a", "t", "f", "o", "r", "m">>,
    <<"p", "r", "o", "d", "u", "c", "t">>}

ChallengeWords == {
    <<"c", "h", "a", "l", "l", "e", "n", "g", "e">>,
    <<"n", "e", "e", "d">>,
    <<"r", "e", "q", "u", "i", "r", "e">>,
    <<"f", "a", "c", "e">>}

\* the chain of "any(word in combined_text ...)" tests
ContentTypeOf(combined_text) ==
    IF \E word \in MarketWords : Contains(combined_text, word) THEN "market"
    ELSE IF \E word \in SolutionWords : Contains(combined_text, word) THEN "solution"
    ELSE IF \E word \in ChallengeWords : Contains(combined_text, word) THEN "challenge"
    ELSE "general"

\* " ".join(str(b) for b in bullets).lower(): the one text, with the join and
\* the lowering each worked out once
CombinedTexts(bullets) ==
    {SubSeq(Lower(joined), 1, Len(joined)) : joined \in {Join(bullets, <<" ">>)}}

determine_content_type(bullets) ==
    CHOOSE t \in {ContentTypeOf(combined_text) : combined_text \in CombinedTexts(bullets)} : TRUE

additional_bullets_OnlyOne(content_type) ==
    <<<<"E", "n", "h", "a", "n", "c", "e", "d", " ", "o", "p", "e", "r", "a", "t", "i",
        "o", "n", "a", "l", " ", "e", "f", "f", "i", "c", "i", "e", "n", "c", "y", " ",
        "a", "n", "d", " ", "p", "r", "o", "d", "u", "c", "t", "i", "v", "i", "t", "y">>>>

\* additional_bullets.get(content_type, additional_bullets["general"])
additional_bullets(content_type) ==
    CASE content_type = "market" ->
        <<
            <<"G", "r", "o", "w", "i", "n", "g", " ", "d", "e", "m", "a", "n", "d", " ", "f",
              "o", "r", " ", "i", "n", "t", "e", "g", "r", "a", "t", "e", "d", " ", "s", "e",
              "c", "u", "r", "i", "t", "y", " ", "s", "o", "l", "u", "t", "i", "o", "n", "s">>,
            <<"I", "n", "c", "r", "e", "a", "s", "i", "n", "g", " ", "a", "d", "o", "p", "t",
              "i", "o", "n", " ", "o", "f", " ", "c", "l", "o", "u", "d", "-", "b", "a", "s",
              "e", "d", " ", "s", "e", "c", "u", "r", "i", "t", "y", " ", "p", "l", "a", "t",
              "f", "o", "r", "m", "s">>,
            <<"R", "i", "s", "i", "n", "g", " ", "f", "o", "c", "u", "s", " ", "o", "n", " ",
              "r", "e", "g", "u", "l", "a", "t", "o", "r", "y", " ", "c", "o", "m", "p", "l",
              "i", "a", "n", "c", "e", " ", "a", "n", "d", " ", "d", "a", "t", "a", " ", "p",
              "r", "o", "t", "e", "c", "t", "i", "o", "n">>,
            <<"E", "x", "p", "a", "n", "d", "i", "n", "g", " ", "t", "h", "r", "e", "a", "t",
              " ", "l", "a", "n", "d", "s", "c", "a", "p", "e", " ", "d", "r", "i", "v", "i",
              "n", "g", " ", "s", "e", "c", "u", "r", "i", "t", "y", " ", "i", "n", "v", "e",
              "s", "t", "m", "e", "n", "t", "s">>>>
      [] content_type = "solution" ->
        <<
            <<"A", "d", "v", "a", "n", "c", "e", "d", " ", "t", "h", "r", "e", "a", "t", " ",
              "d", "e", "t", "e", "c", "t", "i", "o", "n", " ", "a", "n", "d", " ", "r", "e",
              "s", "p", "o", "n", "s", "e", " ", "c", "a", "p", "a", "b", "i", "l", "i", "t",
              "i", "e", "s">>,
            <<"S", "e", "a", "m", "l", "e", "s", "s", " ", "i", "n", "t", "e", "g", "r", "a",
              "t", "i", "o", "n", " ", "w", "i", "t", "h", " ", "e", "x", "i", "s", "t", "i",
              "n", "g", " ", "s", "e", "c", "u", "r", "i", "t", "y", " ", "t", "o", "o", "l",
              "s">>,
            <<"A", "u", "t", "o", "m", "a", "t", "e", "d", " ", "s", "e", "c", "u", "r", "i",
              "t", "y", " ", "w", "o", "r", "k", "f", "l", "o", "w", "s", " ", "a", "n", "d",
              " ", "o", "r", "c", "h", "e", "s", "t", "r", "a", "t", "i", "o", "n">>,
            <<"R", "e", "a", "l", "-", "t", "i", "m", "e", " ", "m", "o", "n", "i", "t", "o",
              "r", "i", "n", "g", " ", "a", "n", "d", " ", "a", "l", "e", "r", "t", "i", "n",
              "g", " ", "s", "y", "s", "t", "e", "m">>>>
      [] content_type = "challenge" ->
        <<
            <<"N", "e", "e", "d", " ", "f", "o", "r", " ", "c", "o", "m", "p", "r", "e", "h",
              "e", "n", "s", "i", "v", "e", " ", "s", "e", "c", "u", "r", "i", "t", "y", " ",
              "v", "i", "s", "i", "b", "i", "l", "i", "t", "y">>,
            <<"R", "e", "s", "o", "u", "r", "c", "e", " ", "c", "o", "n", "s", "t", "r", "a",
              "i", "n", "t", "s", " ", "i", "n", " ", "s", "e", "c", "u", "r", "i", "t", "y",
              " ", "o", "p", "e", "r", "a", "t", "i", "o", "n", "s">>,
            <<"C", "o", "m", "p", "l", "e", "x", " ", "c", "o", "m", "p", "l", "i", "a", "n",
              "c", "e", " ", "r", "e", "q", "u", "i", "r", "e", "m", "e", "n", "t", "s", " ",
              "m", "a", "n", "a", "g", "e", "m", "e", "n", "t">>,
            <<"R", "a", "p", "i", "d", " ", "r", "e", "s", "p", "o", "n", "s", "e", " ", "t",
              "o", " ", "e", "m", "e", "r", "g", "i", "n", "g", " ", "t", "h", "r", "e", "a",
              "t", "s">>>>
      [] OTHER ->
        <<
            <<"E", "n", "h", "a", "n", "c", "e", "d", " ", "o", "p", "e", "r", "a", "t", "i",
              "o", "n", "a", "l", " ", "e", "f", "f", "i", "c", "i", "e", "n", "c", "y", " ",
              "a", "n", "d", " ", "p", "r", "o", "d", "u", "c", "t", "i", "v", "i", "t", "y">>,
            <<"I", "m", "p", "r", "o", "v", "e", "d", " ", "s", "e", "c", "u", "r", "i", "t",
              "y", " ", "p", "o", "s", "t", "u", "r", "e", " ", "a", "n", "d", " ", "r", "i",
              "s", "k", " ", "m", "a", "n", "a", "g", "e", "m", "e", "n", "t">>,
            <<"S", "t", "r", "e", "a", "m", "l", "i", "n", "e", "d", " ", "c", "o", "m", "p",
              "l", "i", "a", "n", "c", "e", " ", "a", "n", "d", " ", "r", "e", "p", "o", "r",
              "t", "i", "n", "g", " ", "p", "r", "o", "c", "e", "s", "s", "e", "s">>,
            <<"C", "o", "s", "t", "-", "e", "f", "f", "e", "c", "t", "i", "v", "e", " ", "s",
              "e", "c", "u", "r", "i", "t", "y", " ", "m", "a", "n", "a", "g", "e", "m", "e",
              "n", "t">>>>

RealtimeMonitoring ==
    <<"R", "e", "a", "l", "t", "i", "m", "e", " ", "m", "o", "n", "i", "t", "o", "r",
      "i", "n", "g", " ", "a", "n", "d", " ", "a", "l", "e", "r", "t", "i", "n", "g",
      " ", "s", "y", "s", "t", "e", "m">>

MinBullets == 4

MaxBulletsExecutive == 4

MaxBulletsOther == 5

\* the bound on the lists the loop is entered with
MaxPadInput == 3

PadPool == {
    <<"x">>,
    <<"m", "a", "r", "k", "e", "t">>,
    RealtimeMonitoring,
    additional_bullets("general")[1],
    additional_bullets("challenge")[1]}

LongBullets == <<<<"p">>, <<"q">>, <<"r">>, <<"s">>, <<"t">>, <<"u">>>>

PadInputs ==
    SeqsUpTo(PadPool, MaxPadInput)
    \cup {SubSeq(LongBullets, 1, n) : n \in MinBullets..Len(LongBullets)}

\* the bullets the lists of this specification are made of, each with its
\* get_comparison_key, worked out once
PadTexts ==
    PadPool \cup Range(LongBullets)
    \cup UNION {Range(additional_bullets(t)) : t \in {"market", "solution", "challenge", "general"}}

KeyTable == {<<b, get_comparison_key(b)>> : b \in PadTexts}

KeyOf(bullet) == (CHOOSE p \in KeyTable : p[1] = bullet)[2]

BulletKeys(bullets) == {KeyOf(bullets[i]) : i \in 1..Len(bullets)}

InitPad ==
    /\ pad_style = <<>>
    /\ pad_input = <<>>
    /\ clean_bullets = <<>>
    /\ pad_pc = "start"
    /\ IdleDedup
    /\ IdleKey
    /\ IdleTrunc
    /\ IdleStyle
    /\ IdlePlan
    /\ IdleBuild
    /\ IdleImage
    /\ IdleMerge
    /\ IdleSearch
    /\ IdleEnrich
    /\ IdleTable

\* create_problem_slide up to the loop: the style, and the deduplicated
\* bullets with the product name put in
EnterLoop ==
    /\ pad_pc = "start"
    /\ pad_style' \in PresentationStyleKeys
    /\ pad_input' \in PadInputs
    /\ clean_bullets' = pad_input'
    /\ pad_pc' = "loop"
    /\ UNCHANGED <<baseVars, planVars, buildVars, imageVars, mergeVars, searchVars,
                   enrichVars, tableVars>>

\* one iteration of "while len(clean_bullets) < 4": random.choice picks a
\* candidate of the determined content type, appended when its key is new
PadStep ==
    /\ pad_pc = "loop"
    /\ Len(clean_bullets) < MinBullets
    /\ \E new_bullet \in Range(additional_bullets(determine_content_type(clean_bullets))) :
          clean_bullets' =
              IF KeyOf(new_bullet) \notin BulletKeys(clean_bullets)
              THEN Append(clean_bullets, new_bullet)
              ELSE clean_bullets
    /\ UNCHANGED <<pad_style, pad_input, pad_pc, baseVars, planVars, buildVars, imageVars,
                   mergeVars, searchVars, enrichVars, tableVars>>

\* the loop is left and the list cut to max_bullets
PadExit ==
    /\ pad_pc = "loop"
    /\ Len(clean_bullets) >= MinBullets
    /\ LET max_bullets == IF pad_style = executive THEN MaxBulletsExecutive
                          ELSE MaxBulletsOther
       IN  clean_bullets' = SubSeq(clean_bullets, 1,
                                   IF Len(clean_bullets) < max_bullets
                                   THEN Len(clean_bullets) ELSE max_bullets)
    /\ pad_pc' = "done"
    /\ UNCHANGED <<pad_style, pad_input, baseVars, planVars, buildVars, imageVars,
                   mergeVars, searchVars, enrichVars, tableVars>>

NextPad ==
    \/ EnterLoop
    \/ PadStep
    \/ PadExit

SpecPad == InitPad /\ [][NextPad]_vars

\* random.choice gives every candidate a positive chance at every iteration:
\* an iteration that can append is not put off forever
SpecPadFair == SpecPad /\ WF_vars(EnterLoop) /\ WF_vars(PadStep) /\ WF_vars(PadExit)

DistinctKeys(bullets) ==
    \A i, j \in 1..Len(bullets) :
        i # j => KeyOf(bullets[i]) # KeyOf(bullets[j])

\* a candidate of the type determined now has a key no bullet has
CanAppend ==
    \E c \in Range(additional_bullets(determine_content_type(clean_bullets))) :
        KeyOf(c) \notin BulletKeys(clean_bullets)

\* what the loop and the cut leave
PaddedList ==
    /\ Len(clean_bullets) >= MinBullets
    /\ Len(clean_bullets) <= MaxBulletsOther
    /\ pad_style = executive => Len(clean_bullets) <= MaxBulletsExecutive
    /\ DistinctKeys(pad_input) => DistinctKeys(clean_bullets)

\* C28: the minimum-content loop is left for every list of deduplicated
\* bullets; while it runs with fewer than 4 bullets some candidate of the
\* type determined at that moment has a new key; and the list it leaves has 4
\* to 5 bullets (4 for the executive style) with pairwise distinct keys.
C28_PaddingTerminates ==
    /\ <>(pad_pc = "done")
    /\ []((pad_pc = "loop" /\ Len(clean_bullets) < MinBullets) => CanAppend)
    /\ [](pad_pc = "done" => PaddedList)

\* C28 witness: an empty list was padded to four bullets, and the content
\* type changed on the way from general to solution.
C28_Witness ==
    /\ pad_pc = "done"
    /\ pad_input = <<>>
    /\ Len(clean_bullets) = MinBullets
    /\ clean_bullets[1] \in Range(additional_bullets("general"))
    /\ clean_bullets[MinBullets] \in Range(additional_bullets("solution"))

====
